---------------------------- MODULE Spec2Model ----------------------------
(***************************************************************************)
(* Chunked voxel world of Vibecraft: the Block Store, the chunk registry   *)
(* with its per-type mesh cache, seeded terrain / tree generation and the  *)
(* streaming entry point updateChunks, as implemented by class World       *)
(* (chunked version) together with SeededRandom and the face culling of    *)
(* GreedyMesher.createMeshGeometry.                                        *)
(*                                                                         *)
(* The world is modelled at reduced scale.  The program's sizes (chunk     *)
(* side 16, render distance 8, 31-bit generator, tree dimensions, terrain  *)
(* base height) are kept as named definitions with smaller values; every   *)
(* formula of the code is kept in the shape the code has it, with the      *)
(* named definition in place of the literal.  The unload margin (+2) and   *)
(* the strata offsets (-3, -1) have the program's values.                  *)
(***************************************************************************)
EXTENDS Integers, Sequences, FiniteSets, TLC

VARIABLES
    seed,           \* World.seed, fixed at construction
    blocks,         \* World.blocks: cell <<x,y,z>> -> type, for the cells that hold a block
    chunks,         \* World.chunks: chunk <<cx,cz>> -> meshes (type -> set of rendered unit faces)
    lastOp,         \* history: the last call made on the world
    visited,        \* history: the player chunks updateChunks has been called for
    lastMut,        \* history: cell -> outcome of the most recent successful addBlock/removeBlock
    everGenerated,  \* history: chunks on which generateChunk has run
    regenerated,    \* history: chunks on which generateChunk has run more than once
    lastGenerated,  \* history: chunks generated by the last call
    lastUnloaded,   \* history: chunks unloaded by the last call
    midBlocks,      \* history: the Block Store as it was when the last call's unload phase began
    nMut,           \* number of addBlock/removeBlock calls made so far
    callArgs,       \* the arguments of a call made on a function or object outside a world
    callResult      \* what the calls returned, and the state of the object they were
                    \* made on: [done |-> FALSE] until a call has been made

vars == <<seed, blocks, chunks, lastOp, visited, lastMut, everGenerated, regenerated,
          lastGenerated, lastUnloaded, midBlocks, nMut, callArgs, callResult>>

---------------------------------------------------------------------------
(* Bounds of the model *)

\* addBlock/removeBlock calls explored per behaviour
MaxMutations == 2
\* addBlock/removeBlock calls explored on a world that is never streamed
MaxFreshMutations == 4

(* Program constants, at model scale *)

\* this.chunkSize (16 in the program)
ChunkSize == 2
\* this.renderDistance (8 in the program)
RenderDistance == 1
\* the unload margin: renderDistance + 2
Hysteresis == 2
\* baseHeight (8 in the program)
BaseHeight == 2
\* heightVariation (12 in the program): noise * heightVariation ranges over -NoiseAmp .. NoiseAmp
NoiseAmp == 2
\* finalHeight > 3 guards tree placement (1 at model scale)
TreeLine == 1
\* chunkRandom.next() < 0.015, in thousandths (raised so that the small world has trees)
TreeChance == 300
\* trunkHeight = 3 + nextInt(0, 4) (1 + nextInt(0, 2) at model scale)
TrunkMin == 1
TrunkSpan == 2
\* leavesRadius (2 in the program)
LeavesRadius == 1
\* dy runs over -1 .. 2 in the program (-1 .. 0 at model scale)
LeafDyMin == -1
LeafDyMax == 0
\* getBlocksInChunk scans y in -5 .. 99 (-1 .. 9 at model scale)
ScanMinY == -1
ScanMaxY == 10
\* SeededRandom: seed = (seed * 1103515245 + 12345) & 0x7fffffff, kept to its low RandBits bits:
\* the multiplier and increment are the program's reduced modulo LcgM
LcgM == 256
LcgA == 109
LcgC == 57
\* new SeededRandom(this.seed + cx * 4321 + cz * 9876)
ChunkSeedX == 4321
ChunkSeedZ == 9876

Types == {"grass", "dirt", "stone", "wood", "leaves"}

\* seeds a world is constructed with
Seeds == {1}
\* positions <<x, z>> handed to updateChunks
PlayerPositions == {<<0, 0>>, <<2, 1>>, <<8, 0>>}
\* cells and types handed to addBlock / removeBlock
MutCells == {<<1, 0, 0>>, <<2, 0, 0>>}
PlaceTypes == {"stone", "leaves"}

\* F applied to the value of e, with e evaluated once
Let(e, F(_)) == CHOOSE r \in {F(v) : v \in {e}} : TRUE

Max(a, b) == IF a >= b THEN a ELSE b
Abs(a) == IF a >= 0 THEN a ELSE 0 - a

---------------------------------------------------------------------------
(* Keys and chunk arithmetic *)

\* Math.floor(x / this.chunkSize)
chunkCoord(x) == x \div ChunkSize

\* the chunk that owns a cell
chunkOfCell(cell) == <<chunkCoord(cell[1]), chunkCoord(cell[3])>>

isBlockAt(b, cell) == cell \in DOMAIN b

getBlock(b, cell) == IF cell \in DOMAIN b THEN b[cell] ELSE "absent"

---------------------------------------------------------------------------
(* SeededRandom *)

\* one step of the generator: the new this.seed
lcgStep(s) == (s * LcgA + LcgC) % LcgM

\* next() < p / 1000, for the state s that next() has just produced;
\* next() returns s / (LcgM - 1)
nextBelow(s, p) == s * 1000 < p * (LcgM - 1)

\* nextInt(min, max) = floor(next() * (max - min)) + min, for the state s just produced
nextInt(s, min, max) == ((s * (max - min)) \div (LcgM - 1)) + min

---------------------------------------------------------------------------
(* SeededRandom at the program's width: 31-bit state, double arithmetic *)

\* the constants of next()
Multiplier == 1103515245
Increment == 12345
Mask31 == 2147483647

\* A non-negative integer below 2^62 is held as [hi, lo], standing for
\* hi * 2^31 + lo with 0 <= lo <= Mask31, so that no intermediate value leaves
\* the 32-bit integers.

\* x + y for 0 <= x, y <= Mask31, as [carry, lo]
addLow(x, y) ==
    IF x > Mask31 - y THEN [carry |-> 1, lo |-> (x - (Mask31 - y)) - 1]
    ELSE [carry |-> 0, lo |-> x + y]

\* m * Multiplier for 0 <= m <= Mask31, exactly
timesMultiplier(m) ==
    LET m1  == m \div 65536
        m0  == m % 65536
        a1  == Multiplier \div 65536
        a0  == Multiplier % 65536
        mid == (m1 * a0) + (m0 * a1)
        low == addLow((mid % 32768) * 65536, m0 * a0)
    IN [hi |-> (2 * (m1 * a1)) + (mid \div 32768) + low.carry, lo |-> low.lo]

\* the number of binary digits of h, 0 <= h <= Mask31
bitLength(h) ==
    CHOOSE n \in 0 .. 31 : \/ n = 0 /\ h = 0
                           \/ n >= 1 /\ h >= 2 ^ (n - 1) /\ (n = 31 \/ h < 2 ^ n)

\* variant: arithmetic without rounding
roundExact(n) == n

\* the double nearest to a non-negative integer: 53 significant bits, ties to even
roundToDouble(n) ==
    IF bitLength(n.hi) <= 22 THEN n
    ELSE LET k    == bitLength(n.hi) - 22
             unit == 2 ^ k
             q    == n.lo \div unit
             r    == n.lo % unit
             up   == IF r > unit \div 2 \/ (r = unit \div 2 /\ q % 2 = 1) THEN 1 ELSE 0
         IN IF q + up = 2 ^ (31 - k) THEN [hi |-> n.hi + 1, lo |-> 0]
            ELSE [hi |-> n.hi, lo |-> (q + up) * unit]

\* n + Increment
plusIncrement(n) ==
    LET low == addLow(n.lo, Increment)
    IN [hi |-> n.hi + low.carry, lo |-> low.lo]

\* n - Increment, for n >= Increment
minusIncrement(n) ==
    IF n.lo >= Increment THEN [hi |-> n.hi, lo |-> n.lo - Increment]
    ELSE [hi |-> n.hi - 1, lo |-> (Mask31 - Increment) + n.lo + 1]

\* the new this.seed of next(): (this.seed * 1103515245 + 12345) & 0x7fffffff, the
\* product and the sum being doubles; for an integer seed with |seed| <= Mask31
nextSeed(s) ==
    IF s >= 0
    THEN roundToDouble(plusIncrement(roundToDouble(timesMultiplier(s)))).lo
    ELSE Let(roundToDouble(minusIncrement(roundToDouble(timesMultiplier(-s)))).lo,
             LAMBDA low : IF low = 0 THEN 0 ELSE (Mask31 - low) + 1)

\* floor(next() * n) for the state s that next() has just produced, 0 <= s <= Mask31
\* and n small: next() is the double nearest s / 0x7fffffff, and the product
\* reaches j exactly when s >= ceil(j * 0x7fffffff / n)
floorScaled(s, n) ==
    Cardinality({j \in 1 .. n :
        s >= (j * (Mask31 \div n)) + (((j * (Mask31 % n)) + n - 1) \div n)})

\* nextInt(min, max), for the state s that its call of next() has produced
nextIntOf(s, min, max) == floorScaled(s, max - min) + min

\* const trunkHeight = 3 + random.nextInt(0, 4)
trunkHeightOf(s) == 3 + nextIntOf(s, 0, 4)

---------------------------------------------------------------------------
(* Block Store writes of the generator *)

\* setBlockData: overwrite or insert
setBlockData(b, cell, type) == (cell :> type) @@ b

\* addBlockData: insert if absent
addBlockData(b, cell, type) ==
    IF cell \in DOMAIN b THEN b ELSE setBlockData(b, cell, type)

---------------------------------------------------------------------------
(* Terrain *)

\* floor(noiseValue * heightVariation): the octave noise is a function of the seed's
\* permutation table and the column alone; it is modelled by an integer hash of
\* (seed, x, z) with values in -NoiseAmp .. NoiseAmp - 1
noiseLevel(s, x, z) == ((s + 3 * x + 5 * z + x * z) % (2 * NoiseAmp)) - NoiseAmp

\* finalHeight = max(1, floor(baseHeight + noiseValue * heightVariation))
finalHeight(s, x, z) == Max(1, BaseHeight + noiseLevel(s, x, z))

\* the type stamped at height y of a column of height h
stratum(y, h) ==
    IF y = 0 THEN "stone"
    ELSE IF y < h - 3 THEN "stone"
    ELSE IF y < h - 1 THEN "dirt"
    ELSE "grass"

\* for (y = 0; y < finalHeight; y++) setBlockData(x, y, z, type): the column's cells
\* 0 .. h-1 are overwritten or inserted, each with the type of its stratum
stampColumn(b, x, z, h) ==
    [cell \in {<<x, y, z>> : y \in 0 .. h - 1} |-> stratum(cell[2], h)] @@ b

---------------------------------------------------------------------------
(* Trees *)

\* the (dx, dy, dz) of generateTree's three nested loops, in loop order
\* (dx outermost, dz innermost)
LeafSpan == 2 * LeavesRadius + 1
LeafLayers == LeafDyMax - LeafDyMin + 1
leafOffset(i) ==
    <<((i - 1) \div (LeafLayers * LeafSpan)) - LeavesRadius,
      (((i - 1) \div LeafSpan) % LeafLayers) + LeafDyMin,
      ((i - 1) % LeafSpan) - LeavesRadius>>

\* dist = sqrt(dx*dx + dz*dz); dist > leavesRadius + 0.5 skips the cell, and so does
\* the cell right under the crown's centre; a skipped cell draws nothing
leafSkipped(o) ==
    \/ 4 * (o[1] * o[1] + o[3] * o[3]) > (2 * LeavesRadius + 1) * (2 * LeavesRadius + 1)
    \/ (o[1] = 0 /\ o[2] = -1 /\ o[3] = 0)

\* random.next() < leafChance, leafChance = 1.0 - (dist / (leavesRadius + 1)) * 0.3,
\* for the generator state s just produced: s/(M-1) < 1 - 0.3*dist/(R+1), squared
leafDrawn(s, o) ==
    9 * (o[1] * o[1] + o[3] * o[3]) * (LcgM - 1) * (LcgM - 1)
        < 100 * (LeavesRadius + 1) * (LeavesRadius + 1) * (LcgM - 1 - s) * (LcgM - 1 - s)

\* the generator state after k more steps from state s: the first half of the steps,
\* then the rest
RECURSIVE lcgSkip(_, _)
lcgSkip(s, k) ==
    IF k = 0 THEN s
    ELSE IF k = 1 THEN lcgStep(s)
    ELSE Let(lcgSkip(s, k \div 2), LAMBDA half : lcgSkip(half, k - (k \div 2)))

\* the offsets that reach random.next(), in loop order
LeafCandidates ==
    SelectSeq([i \in 1 .. LeafSpan * LeafLayers * LeafSpan |-> leafOffset(i)],
              LAMBDA o : ~ leafSkipped(o))

\* variant: trunk and leaves are written with setBlockData, replacing what is there
generateTreeOverwrite(g, x, y, z) ==
    Let(lcgStep(g.rng), LAMBDA heightDraw :
    LET trunkHeight == TrunkMin + nextInt(heightDraw, 0, TrunkSpan)
        leavesY == y + trunkHeight
        trunkCells == {<<x, y + i, z>> : i \in 0 .. trunkHeight - 1}
        leafCells == {<<x + LeafCandidates[j][1], leavesY + LeafCandidates[j][2],
                        z + LeafCandidates[j][3]>> :
                         j \in {k \in 1 .. Len(LeafCandidates) :
                                   leafDrawn(lcgSkip(heightDraw, k), LeafCandidates[k])}}
    IN [blocks |-> [cell \in leafCells |-> "leaves"]
                       @@ ([cell \in trunkCells |-> "wood"] @@ g.blocks),
        rng |-> lcgSkip(heightDraw, Len(LeafCandidates))])

\* generateTree(x, y, z, random), g = [blocks, rng]: one draw for the trunk height,
\* the trunk by addBlockData, then one draw per leaf candidate, the j-th candidate
\* being decided by the j-th state after the trunk draw, each leaf by addBlockData.
\* addBlockData never replaces, so the trunk cells keep "wood" and every cell that
\* held a block before keeps it.
generateTree(g, x, y, z) ==
    Let(lcgStep(g.rng), LAMBDA heightDraw :
    LET trunkHeight == TrunkMin + nextInt(heightDraw, 0, TrunkSpan)
        leavesY == y + trunkHeight
        trunkCells == {<<x, y + i, z>> : i \in 0 .. trunkHeight - 1}
        leafCells == {<<x + LeafCandidates[j][1], leavesY + LeafCandidates[j][2],
                        z + LeafCandidates[j][3]>> :
                         j \in {k \in 1 .. Len(LeafCandidates) :
                                   leafDrawn(lcgSkip(heightDraw, k), LeafCandidates[k])}}
    IN [blocks |-> (g.blocks @@ [cell \in trunkCells |-> "wood"])
                       @@ [cell \in leafCells |-> "leaves"],
        rng |-> lcgSkip(heightDraw, Len(LeafCandidates))])

---------------------------------------------------------------------------
(* Meshes *)

Dirs == {<<0, 1, 0>>, <<0, -1, 0>>, <<1, 0, 0>>, <<-1, 0, 0>>, <<0, 0, 1>>, <<0, 0, -1>>}
SideDirs == {<<0, 0, 1>>, <<0, 0, -1>>, <<1, 0, 0>>, <<-1, 0, 0>>}

step(cell, d) == <<cell[1] + d[1], cell[2] + d[2], cell[3] + d[3]>>

\* the cells getBlocksInChunk collects: the chunk's x/z range, y in the scanned range
getBlocksInChunk(b, c) ==
    {cell \in DOMAIN b : /\ chunkOfCell(cell) = c
                         /\ cell[2] >= ScanMinY
                         /\ cell[2] < ScanMaxY}

\* GreedyMesher.createMeshGeometry, as the set of unit faces <<cell, dir>> its quads
\* cover: a face of an input block is visible unless the neighbour is in the input
\* set (hasBlock) or the neighbour check reports it; occluding is the set of cells
\* for which neighborCheck returns true
createMeshGeometry(typeBlocks, occluding) ==
    {f \in typeBlocks \X Dirs :
        LET n == step(f[1], f[2]) IN
        ~ (n \in typeBlocks) /\ ~ (n \in occluding)}

\* the meshes buildChunkMesh stores for a chunk: one per type present whose geometry
\* is not empty; neighborCheck is isBlockAt
chunkMeshes(b, c) ==
    LET geometries(inChunk, occluding) ==
            [t \in {b[cell] : cell \in inChunk} |->
                createMeshGeometry({cell \in inChunk : b[cell] = t}, occluding)]
        nonEmpty(geo) == [t \in {u \in DOMAIN geo : geo[u] # {}} |-> geo[t]]
    IN Let(getBlocksInChunk(b, c),
           LAMBDA inChunk : Let(DOMAIN b,
           LAMBDA occluding : Let(geometries(inChunk, occluding), nonEmpty)))

\* variant: a chunk that is not registered is registered by the build
buildChunkMeshRegisters(w, c) ==
    [blocks |-> w.blocks, chunks |-> (c :> chunkMeshes(w.blocks, c)) @@ w.chunks]

\* variant: a chunk without blocks keeps the handles it had
buildChunkMeshKeepsHandles(w, c) ==
    IF c \notin DOMAIN w.chunks \/ getBlocksInChunk(w.blocks, c) = {} THEN w
    ELSE [blocks |-> w.blocks, chunks |-> (c :> chunkMeshes(w.blocks, c)) @@ w.chunks]

\* buildChunkMesh(cx, cz): w = [blocks, chunks]
buildChunkMesh(w, c) ==
    IF c \notin DOMAIN w.chunks THEN w
    ELSE [blocks |-> w.blocks, chunks |-> (c :> chunkMeshes(w.blocks, c)) @@ w.chunks]

---------------------------------------------------------------------------
(* GreedyMesher.createMeshGeometry, quad by quad *)

Min(a, b) == IF a < b THEN a ELSE b

\* stands for the Infinity the bounds start from; beyond every coordinate used
Infinity == 1000

\* the six face orientations, axes numbered 0 (x), 1 (y), 2 (z) as in the code
faces ==
    << [dir |-> <<0, 1, 0>>,  u |-> 0, v |-> 2, name |-> "top"],
       [dir |-> <<0, -1, 0>>, u |-> 0, v |-> 2, name |-> "bottom"],
       [dir |-> <<1, 0, 0>>,  u |-> 2, v |-> 1, name |-> "right"],
       [dir |-> <<-1, 0, 0>>, u |-> 2, v |-> 1, name |-> "left"],
       [dir |-> <<0, 0, 1>>,  u |-> 0, v |-> 1, name |-> "front"],
       [dir |-> <<0, 0, -1>>, u |-> 0, v |-> 1, name |-> "back"] >>

dAxisOf(face) == 3 - face.u - face.v

\* variant: the lower bounds are those of the first block of the list
extendBoundsFirst(bounds, b) ==
    [min |-> IF bounds.min[1] = Infinity THEN b ELSE bounds.min,
     max |-> <<Max(bounds.max[1], b[1]), Max(bounds.max[2], b[2]), Max(bounds.max[3], b[3])>>]

\* one round of blocks.forEach: Math.min / Math.max on each axis
extendBounds(bounds, b) ==
    [min |-> <<Min(bounds.min[1], b[1]), Min(bounds.min[2], b[2]), Min(bounds.min[3], b[3])>>,
     max |-> <<Max(bounds.max[1], b[1]), Max(bounds.max[2], b[2]), Max(bounds.max[3], b[3])>>]

\* the bounds after the first k blocks of the list
RECURSIVE listBounds(_, _)
listBounds(list, k) ==
    IF k = 0 THEN [min |-> <<Infinity, Infinity, Infinity>>,
                   max |-> <<-Infinity, -Infinity, -Infinity>>]
    ELSE Let(listBounds(list, k - 1), LAMBDA bounds : extendBounds(bounds, list[k]))

\* blockSet: the coordinates of the list, duplicates collapsed
blockSetOf(list) == {list[i] : i \in 1 .. Len(list)}

\* the cell at depth d, column u, row v of a face orientation
coordsOf(face, d, u, v) ==
    LET at(axis) == IF axis = dAxisOf(face) THEN d ELSE IF axis = face.u THEN u ELSE v
    IN <<at(0), at(1), at(2)>>

\* variant: the neighbour check is never consulted
visibleInternalOnly(cell, dir, blockSet, neighborCheck) ==
    ~ (step(cell, dir) \in blockSet)

\* the face of an input block towards dir is visible: neighborCheck is
\* [given |-> FALSE] for null, or [given |-> TRUE, cells |-> the cells it reports]
visible(cell, dir, blockSet, neighborCheck) ==
    IF step(cell, dir) \in blockSet THEN FALSE
    ELSE IF neighborCheck.given THEN ~ (step(cell, dir) \in neighborCheck.cells)
    ELSE TRUE

\* the visibility mask of one face orientation at depth d: the <<u, v>> with a block
\* whose face is visible
maskOf(face, d, blockSet, neighborCheck, bounds) ==
    {uv \in (bounds.min[face.u + 1] .. bounds.max[face.u + 1])
            \X (bounds.min[face.v + 1] .. bounds.max[face.v + 1]) :
        /\ coordsOf(face, d, uv[1], uv[2]) \in blockSet
        /\ visible(coordsOf(face, d, uv[1], uv[2]), face.dir, blockSet, neighborCheck)}

\* variant: the width grows over cells already taken by an earlier rectangle
RECURSIVE growWidthOverTaken(_, _, _, _, _, _)
growWidthOverTaken(mask, processed, u, v, maxU, width) ==
    IF <<u + width, v>> \in mask /\ u + width <= maxU
    THEN growWidthOverTaken(mask, processed, u, v, maxU, width + 1)
    ELSE width

\* the while loop of the width, entered with the given width
RECURSIVE growWidth(_, _, _, _, _, _)
growWidth(mask, processed, u, v, maxU, width) ==
    IF <<u + width, v>> \in mask /\ <<u + width, v>> \notin processed /\ u + width <= maxU
    THEN growWidth(mask, processed, u, v, maxU, width + 1)
    ELSE width

\* variant: rows are never merged
growHeightNever(mask, processed, u, v, maxV, width, height) == height

\* the while loop of the height, entered with the given height
RECURSIVE growHeight(_, _, _, _, _, _, _)
growHeight(mask, processed, u, v, maxV, width, height) ==
    IF /\ v + height <= maxV
       /\ \A k \in 0 .. width - 1 : /\ <<u + k, v + height>> \in mask
                                    /\ <<u + k, v + height>> \notin processed
    THEN growHeight(mask, processed, u, v, maxV, width, height + 1)
    ELSE height

\* the body of the two scan loops at <<u, v>>: st = [processed, rects]
visitCell(st, mask, u, v, maxU, maxV) ==
    IF <<u, v>> \in mask /\ <<u, v>> \notin st.processed
    THEN Let(growWidth(mask, st.processed, u, v, maxU, 1),
         LAMBDA width : Let(growHeight(mask, st.processed, u, v, maxV, width, 1),
         LAMBDA height :
             [processed |-> st.processed \cup ((u .. u + width - 1) \X (v .. v + height - 1)),
              rects |-> Append(st.rects, [u |-> u, v |-> v, width |-> width, height |-> height])]))
    ELSE st

\* the scan, rows of v outermost, after the first k cells
RECURSIVE scanMask(_, _, _, _, _, _)
scanMask(mask, minU, maxU, minV, maxV, k) ==
    IF k = 0 THEN [processed |-> {}, rects |-> <<>>]
    ELSE Let(scanMask(mask, minU, maxU, minV, maxV, k - 1),
             LAMBDA st : visitCell(st, mask,
                                   minU + ((k - 1) % (maxU - minU + 1)),
                                   minV + ((k - 1) \div (maxU - minU + 1)),
                                   maxU, maxV))

\* the rectangles of one mask, in the order they are emitted
greedyRects(mask, minU, maxU, minV, maxV) ==
    scanMask(mask, minU, maxU, minV, maxV, (maxU - minU + 1) * (maxV - minV + 1)).rects

\* the addQuad calls of one face orientation at depth d
sliceQuads(face, d, blockSet, neighborCheck, bounds) ==
    Let(greedyRects(maskOf(face, d, blockSet, neighborCheck, bounds),
                    bounds.min[face.u + 1], bounds.max[face.u + 1],
                    bounds.min[face.v + 1], bounds.max[face.v + 1]),
        LAMBDA rects : [i \in 1 .. Len(rects) |->
                           [face |-> face, d |-> d, u |-> rects[i].u, v |-> rects[i].v,
                            width |-> rects[i].width, height |-> rects[i].height]])

\* the sequences f[lo], ..., f[hi] one after the other
RECURSIVE flatten(_, _, _)
flatten(f, lo, hi) ==
    IF lo > hi THEN <<>>
    ELSE IF lo = hi THEN f[lo]
    ELSE Let(flatten(f, lo, (lo + hi) \div 2),
             LAMBDA half : half \o flatten(f, ((lo + hi) \div 2) + 1, hi))

\* the addQuad calls of one face orientation, depth by depth
faceQuads(face, blockSet, neighborCheck, bounds) ==
    flatten([d \in bounds.min[dAxisOf(face) + 1] .. bounds.max[dAxisOf(face) + 1] |->
                sliceQuads(face, d, blockSet, neighborCheck, bounds)],
            bounds.min[dAxisOf(face) + 1], bounds.max[dAxisOf(face) + 1])

\* lengths in the emitted buffers are counted in half blocks, so that the block
\* height (0.5 with isHalfHeight, 1.0 without) is an integer
HalfUnits == 2
blockHeightOf(isHalfHeight) == IF isHalfHeight THEN 1 ELSE HalfUnits

\* variant: the index order is reversed for +X, +Y and +Z
addQuadReversedPositive(q, baseIndex, blockHeight) ==
    LET positive == q.face.dir[1] > 0 \/ q.face.dir[2] > 0 \/ q.face.dir[3] > 0
        dPos     == IF positive
                    THEN IF q.face.dir[2] > 0 THEN HalfUnits * q.d + blockHeight
                                              ELSE HalfUnits * q.d + HalfUnits
                    ELSE HalfUnits * q.d
        scaled   == blockHeight < HalfUnits /\ q.face.v = 1
        corner(cu, cv) == coordsOf(q.face, dPos, HalfUnits * (q.u + cu),
                                   IF scaled THEN HalfUnits * q.v + cv * blockHeight
                                             ELSE HalfUnits * (q.v + cv))
        uv(cu, cv) == <<HalfUnits * cu, IF scaled THEN cv * blockHeight ELSE HalfUnits * cv>>
    IN [position |-> <<corner(0, 0), corner(q.width, 0),
                       corner(q.width, q.height), corner(0, q.height)>>,
        normal |-> <<q.face.dir, q.face.dir, q.face.dir, q.face.dir>>,
        uv |-> <<uv(0, 0), uv(q.width, 0), uv(q.width, q.height), uv(0, q.height)>>,
        index |-> IF positive
                  THEN <<baseIndex, baseIndex + 2, baseIndex + 1,
                         baseIndex, baseIndex + 3, baseIndex + 2>>
                  ELSE <<baseIndex, baseIndex + 1, baseIndex + 2,
                         baseIndex, baseIndex + 2, baseIndex + 3>>]

\* addQuad at block size 1: four vertices with their normals and uvs, two triangles;
\* positions and uvs in half blocks
addQuad(q, baseIndex, blockHeight) ==
    LET positive == q.face.dir[1] > 0 \/ q.face.dir[2] > 0 \/ q.face.dir[3] > 0
        dPos     == IF positive
                    THEN IF q.face.dir[2] > 0 THEN HalfUnits * q.d + blockHeight
                                              ELSE HalfUnits * q.d + HalfUnits
                    ELSE HalfUnits * q.d
        scaled   == blockHeight < HalfUnits /\ q.face.v = 1
        reversed == \/ q.face.dir[1] > 0 /\ q.face.dir[2] = 0 /\ q.face.dir[3] = 0
                    \/ q.face.dir[1] = 0 /\ q.face.dir[2] > 0 /\ q.face.dir[3] = 0
                    \/ q.face.dir[1] = 0 /\ q.face.dir[2] = 0 /\ q.face.dir[3] < 0
        corner(cu, cv) == coordsOf(q.face, dPos, HalfUnits * (q.u + cu),
                                   IF scaled THEN HalfUnits * q.v + cv * blockHeight
                                             ELSE HalfUnits * (q.v + cv))
        uv(cu, cv) == <<HalfUnits * cu, IF scaled THEN cv * blockHeight ELSE HalfUnits * cv>>
    IN [position |-> <<corner(0, 0), corner(q.width, 0),
                       corner(q.width, q.height), corner(0, q.height)>>,
        normal |-> <<q.face.dir, q.face.dir, q.face.dir, q.face.dir>>,
        uv |-> <<uv(0, 0), uv(q.width, 0), uv(q.width, q.height), uv(0, q.height)>>,
        index |-> IF reversed
                  THEN <<baseIndex, baseIndex + 2, baseIndex + 1,
                         baseIndex, baseIndex + 3, baseIndex + 2>>
                  ELSE <<baseIndex, baseIndex + 1, baseIndex + 2,
                         baseIndex, baseIndex + 2, baseIndex + 3>>]

\* variant: vertexOffset is advanced by one per quad
createMeshQuadsOffsetByOne(list, neighborCheck, isHalfHeight) ==
    IF Len(list) = 0
    THEN [quads |-> <<>>, position |-> <<>>, normal |-> <<>>, uv |-> <<>>, index |-> <<>>]
    ELSE Let(listBounds(list, Len(list)),
         LAMBDA bounds : Let(blockSetOf(list),
         LAMBDA blockSet : Let(flatten([f \in 1 .. Len(faces) |->
                                           faceQuads(faces[f], blockSet, neighborCheck, bounds)],
                                       1, Len(faces)),
         LAMBDA quads : Let([i \in 1 .. Len(quads) |->
                                addQuad(quads[i], i - 1, blockHeightOf(isHalfHeight))],
         LAMBDA added :
             [quads |-> quads,
              position |-> flatten([i \in 1 .. Len(quads) |-> added[i].position], 1, Len(quads)),
              normal |-> flatten([i \in 1 .. Len(quads) |-> added[i].normal], 1, Len(quads)),
              uv |-> flatten([i \in 1 .. Len(quads) |-> added[i].uv], 1, Len(quads)),
              index |-> flatten([i \in 1 .. Len(quads) |-> added[i].index], 1, Len(quads))]))))

\* the geometry returned for a list of blocks: the addQuad calls in order, and the
\* position, normal and uv attributes (one entry per vertex) and the index
createMeshQuads(list, neighborCheck, isHalfHeight) ==
    IF Len(list) = 0
    THEN [quads |-> <<>>, position |-> <<>>, normal |-> <<>>, uv |-> <<>>, index |-> <<>>]
    ELSE Let(listBounds(list, Len(list)),
         LAMBDA bounds : Let(blockSetOf(list),
         LAMBDA blockSet : Let(flatten([f \in 1 .. Len(faces) |->
                                           faceQuads(faces[f], blockSet, neighborCheck, bounds)],
                                       1, Len(faces)),
         LAMBDA quads : Let([i \in 1 .. Len(quads) |->
                                addQuad(quads[i], 4 * (i - 1), blockHeightOf(isHalfHeight))],
         LAMBDA added :
             [quads |-> quads,
              position |-> flatten([i \in 1 .. Len(quads) |-> added[i].position], 1, Len(quads)),
              normal |-> flatten([i \in 1 .. Len(quads) |-> added[i].normal], 1, Len(quads)),
              uv |-> flatten([i \in 1 .. Len(quads) |-> added[i].uv], 1, Len(quads)),
              index |-> flatten([i \in 1 .. Len(quads) |-> added[i].index], 1, Len(quads))]))))

---------------------------------------------------------------------------
(* Chunk generation and unloading *)

\* the columns of a chunk in generateChunk's loop order (x outer, z inner)
chunkColumn(c, i) ==
    <<c[1] * ChunkSize + ((i - 1) \div ChunkSize), c[2] * ChunkSize + ((i - 1) % ChunkSize)>>

\* variant: the tree draw is made only when the cell on top of the column is free
generateColumnDrawIfFree(g, s, x, z) ==
    LET h == finalHeight(s, x, z)
        terrain == stampColumn(g.blocks, x, z, h)
    IN IF h > TreeLine /\ <<x, h, z>> \notin DOMAIN g.blocks
       THEN LET treeDraw == lcgStep(g.rng) IN
            IF nextBelow(treeDraw, TreeChance)
            THEN generateTree([blocks |-> terrain, rng |-> treeDraw], x, h, z)
            ELSE [blocks |-> terrain, rng |-> treeDraw]
       ELSE [blocks |-> terrain, rng |-> g.rng]

\* one column: the terrain, then the tree draw (made only when finalHeight > TreeLine)
generateColumn(g, s, x, z) ==
    LET h == finalHeight(s, x, z)
        terrain == stampColumn(g.blocks, x, z, h)
    IN IF h > TreeLine
       THEN LET treeDraw == lcgStep(g.rng) IN
            IF nextBelow(treeDraw, TreeChance)
            THEN generateTree([blocks |-> terrain, rng |-> treeDraw], x, h, z)
            ELSE [blocks |-> terrain, rng |-> treeDraw]
       ELSE [blocks |-> terrain, rng |-> g.rng]

\* the columns lo .. hi of the chunk, one after the other in loop order; the range is
\* run as its first half followed by its second half
RECURSIVE columnLoop(_, _, _, _, _)
columnLoop(g, s, c, lo, hi) ==
    IF lo = hi
    THEN generateColumn(g, s, chunkColumn(c, lo)[1], chunkColumn(c, lo)[2])
    ELSE Let(columnLoop(g, s, c, lo, (lo + hi) \div 2),
             LAMBDA half : columnLoop(half, s, c, ((lo + hi) \div 2) + 1, hi))

\* the Block Store after generateChunk's column loops, run on store b with a fresh
\* chunkRandom = new SeededRandom(this.seed + cx * 4321 + cz * 9876)
chunkTerrain(b, s, c) ==
    columnLoop([blocks |-> b, rng |-> s + c[1] * ChunkSeedX + c[2] * ChunkSeedZ],
               s, c, 1, ChunkSize * ChunkSize).blocks

\* generateChunk(cx, cz): terrain and trees, then register, then build the mesh
generateChunk(w, s, c) ==
    Let(chunkTerrain(w.blocks, s, c),
        LAMBDA filled : buildChunkMesh([blocks |-> filled,
                                        chunks |-> (c :> <<>>) @@ w.chunks], c))

\* variant: unloading also drops the chunk's block data
unloadChunkPurge(w, c) ==
    IF c \in DOMAIN w.chunks
    THEN [blocks |-> [cell \in {k \in DOMAIN w.blocks : chunkOfCell(k) # c} |-> w.blocks[cell]],
          chunks |-> [k \in DOMAIN w.chunks \ {c} |-> w.chunks[k]]]
    ELSE w

\* unloadChunk(cx, cz): drops the meshes and the registry entry, keeps the block data
unloadChunk(w, c) ==
    IF c \in DOMAIN w.chunks
    THEN [w EXCEPT !.chunks = [k \in DOMAIN w.chunks \ {c} |-> w.chunks[k]]]
    ELSE w

---------------------------------------------------------------------------
(* updateChunks *)

LoadSpan == 2 * RenderDistance + 1

\* variant: the load loops run with < in place of <= and so never reach
\* cx + renderDistance and cz + renderDistance
loadTargetShort(pc, i) ==
    <<pc[1] - RenderDistance + (((i - 1) \div LoadSpan) % (LoadSpan - 1)),
      pc[2] - RenderDistance + (((i - 1) % LoadSpan) % (LoadSpan - 1))>>

\* the chunk coordinates of the load loops, in loop order (x outer, z inner)
loadTarget(pc, i) ==
    <<pc[1] - RenderDistance + ((i - 1) \div LoadSpan),
      pc[2] - RenderDistance + ((i - 1) % LoadSpan)>>

\* variant: generateChunk is called without the chunks.has test
loadStepAlways(t, s, c) ==
    [w |-> generateChunk(t.w, s, c), gen |-> t.gen \cup {c}]

\* if (!this.chunks.has(key)) this.generateChunk(x, z);
\* t = [w, gen]: the world, and the chunks generateChunk has been called for
loadStep(t, s, c) ==
    IF c \in DOMAIN t.w.chunks THEN t
    ELSE [w |-> generateChunk(t.w, s, c), gen |-> t.gen \cup {c}]

\* the iterations lo .. hi of the load loops, one after the other in loop order; the
\* range is run as its first half followed by its second half
RECURSIVE loadLoop(_, _, _, _, _)
loadLoop(t, s, pc, lo, hi) ==
    IF lo = hi
    THEN loadStep(t, s, loadTarget(pc, lo))
    ELSE Let(loadLoop(t, s, pc, lo, (lo + hi) \div 2),
             LAMBDA half : loadLoop(half, s, pc, ((lo + hi) \div 2) + 1, hi))

\* variant: chunks are unloaded as soon as they leave the render distance
tooFarNoMargin(m, pc) ==
    \/ Abs(m[1] - pc[1]) > RenderDistance
    \/ Abs(m[2] - pc[2]) > RenderDistance

\* Math.abs(mx - cx) > renderDistance + 2 || Math.abs(mz - cz) > renderDistance + 2
tooFar(m, pc) ==
    \/ Abs(m[1] - pc[1]) > RenderDistance + Hysteresis
    \/ Abs(m[2] - pc[2]) > RenderDistance + Hysteresis

\* if (tooFar) this.unloadChunk(mx, mz);
\* t = [w, unl]: the world, and the chunks unloadChunk has been called for
unloadStep(t, pc, m) ==
    IF tooFar(m, pc) THEN [w |-> unloadChunk(t.w, m), unl |-> t.unl \cup {m}] ELSE t

\* a set of chunks as a sequence, in ascending order of (cx, cz)
chunkBefore(a, b) == a[1] < b[1] \/ (a[1] = b[1] /\ a[2] < b[2])
chunksInOrder(S) ==
    [i \in 1 .. Cardinality(S) |->
        CHOOSE c \in S : Cardinality({d \in S : chunkBefore(d, c)}) = i - 1]

\* the unload loop over the registry entries order[lo .. hi]; unloadChunk touches only
\* its own entry, so the order of the iteration does not show in the result
RECURSIVE unloadLoop(_, _, _, _, _)
unloadLoop(t, pc, order, lo, hi) ==
    IF lo > hi THEN t
    ELSE IF lo = hi THEN unloadStep(t, pc, order[lo])
    ELSE Let(unloadLoop(t, pc, order, lo, (lo + hi) \div 2),
             LAMBDA half : unloadLoop(half, pc, order, ((lo + hi) \div 2) + 1, hi))

\* updateChunks(playerPos), playerPos = <<x, z>>: the world after the load loops (mid)
\* and after the unload loop (end), with the chunks generated (gen) and unloaded (unl)
updateChunks(w, s, pos) ==
    LET pc == <<chunkCoord(pos[1]), chunkCoord(pos[2])>>
    IN Let(loadLoop([w |-> w, gen |-> {}], s, pc, 1, LoadSpan * LoadSpan),
           LAMBDA loaded :
               Let(unloadLoop([w |-> loaded.w, unl |-> {}], pc,
                              chunksInOrder(DOMAIN loaded.w.chunks),
                              1, Cardinality(DOMAIN loaded.w.chunks)),
                   LAMBDA unloaded : [mid |-> loaded.w, end |-> unloaded.w,
                                      gen |-> loaded.gen, unl |-> unloaded.unl]))

---------------------------------------------------------------------------
(* addBlock / removeBlock *)

\* the chunks rebuilt after a mutation at cell: the owner first, then the chunks of
\* the four horizontal neighbours that differ from the owner
neighborsToUpdate(cell) ==
    {chunkOfCell(step(cell, d)) : d \in SideDirs} \ {chunkOfCell(cell)}

RECURSIVE rebuildAll(_, _)
rebuildAll(w, todo) ==
    IF todo = {} THEN w
    ELSE Let(CHOOSE k \in todo : TRUE,
             LAMBDA c : Let(buildChunkMesh(w, c),
             LAMBDA next : rebuildAll(next, todo \ {c})))

\* this.blocks.delete(key)
deleteBlock(b, cell) == [c \in DOMAIN b \ {cell} |-> b[c]]

\* variant: addBlock skips the write on an occupied cell but still rebuilds
addBlockRebuilds(w, cell, type) ==
    Let([blocks |-> addBlockData(w.blocks, cell, type), chunks |-> w.chunks],
        LAMBDA stored : Let(buildChunkMesh(stored, chunkOfCell(cell)),
        LAMBDA own : rebuildAll(own, neighborsToUpdate(cell))))

\* variant: addBlock without the early return on an occupied cell
addBlockOverwrite(w, cell, type) ==
    Let([blocks |-> setBlockData(w.blocks, cell, type), chunks |-> w.chunks],
        LAMBDA stored : Let(buildChunkMesh(stored, chunkOfCell(cell)),
        LAMBDA own : rebuildAll(own, neighborsToUpdate(cell))))

\* addBlock: nothing at all on an occupied cell
addBlock(w, cell, type) ==
    IF cell \in DOMAIN w.blocks THEN w
    ELSE Let([blocks |-> setBlockData(w.blocks, cell, type), chunks |-> w.chunks],
             LAMBDA stored : Let(buildChunkMesh(stored, chunkOfCell(cell)),
             LAMBDA own : rebuildAll(own, neighborsToUpdate(cell))))

\* removeBlock: nothing at all on an empty cell
removeBlock(w, cell) ==
    IF cell \notin DOMAIN w.blocks THEN w
    ELSE Let([blocks |-> deleteBlock(w.blocks, cell), chunks |-> w.chunks],
             LAMBDA stored : Let(buildChunkMesh(stored, chunkOfCell(cell)),
             LAMBDA own : rebuildAll(own, neighborsToUpdate(cell))))

\* the four horizontal offsets, in the order the code visits them
locals == <<<<0, 0, 1>>, <<0, 0, -1>>, <<1, 0, 0>>, <<-1, 0, 0>>>>

\* variant: the quotient is truncated towards zero
chunkAtTruncating(x, z, size) ==
    <<IF x < 0 THEN - ((- x) \div size) ELSE x \div size,
      IF z < 0 THEN - ((- z) \div size) ELSE z \div size>>

\* the chunk, of side size, that holds column (x, z)
chunkAt(x, z, size) == <<x \div size, z \div size>>

\* variant: every neighbour's chunk is queued, the owner's included
differsAlways(nc, owner) == TRUE

\* ncx !== cx || ncz !== cz
differs(nc, owner) == nc[1] # owner[1] \/ nc[2] # owner[2]

\* the Set neighborsToUpdate after the first k offsets, in insertion order
RECURSIVE neighborsQueued(_, _, _)
neighborsQueued(cell, size, k) ==
    IF k = 0 THEN <<>>
    ELSE LET prev  == neighborsQueued(cell, size, k - 1)
             owner == chunkAt(cell[1], cell[3], size)
             nc    == chunkAt(cell[1] + locals[k][1], cell[3] + locals[k][3], size)
         IN IF differs(nc, owner) /\ \A i \in 1 .. Len(prev) : prev[i] # nc
            THEN Append(prev, nc)
            ELSE prev

\* the chunks on which a successful addBlock / removeBlock at cell calls
\* buildChunkMesh, in the order of the calls, in a world of chunk side size
rebuildOrder(cell, size) ==
    <<chunkAt(cell[1], cell[3], size)>> \o neighborsQueued(cell, size, Len(locals))

---------------------------------------------------------------------------
(* Lookups *)

\* the vertical range getHighestBlockAt scans, and what it returns when it finds nothing
HighestTop == 50
HighestBottom == -50
NoBlockFound == -1

\* for (let y = 50; y >= -50; y--) if (isBlockAt(x, y, z)) return y; entered at y
RECURSIVE scanDown(_, _, _, _)
scanDown(b, x, z, y) ==
    IF y < HighestBottom THEN NoBlockFound
    ELSE IF isBlockAt(b, <<x, y, z>>) THEN y
    ELSE scanDown(b, x, z, y - 1)

\* getHighestBlockAt(x, z)
getHighestBlockAt(b, x, z) == scanDown(b, x, z, HighestTop)

\* what this.blocks.get(key) returns: the stored record, or undefined for a key the
\* Map does not hold
mapGet(b, cell) ==
    IF cell \in DOMAIN b THEN [kind |-> "object", type |-> b[cell]]
    ELSE [kind |-> "undefined", type |-> "none"]

\* getBlock(x, y, z): return this.blocks.get(this.getBlockKey(x, y, z))
getBlockValue(b, cell) == mapGet(b, cell)

---------------------------------------------------------------------------
(* The World without chunks: one optimized mesh per type for the generated *)
(* terrain, one individual mesh per block placed afterwards.               *)
(* w = [blocks, instancedMeshes, dynamicMeshes]; an optimized mesh is the  *)
(* set of unit faces of its geometry, built without neighbour check.       *)

\* buildOptimizedMeshes: blockData grouped by type, one mesh per type present
buildOptimizedMeshes(blockData) ==
    [t \in {blockData[c] : c \in DOMAIN blockData} |->
        createMeshGeometry({c \in DOMAIN blockData : blockData[c] = t}, {})]

\* the world the constructor leaves, for generated terrain blockData
flatWorld(blockData) ==
    [blocks |-> blockData,
     instancedMeshes |-> buildOptimizedMeshes(blockData),
     dynamicMeshes |-> <<>>]

\* addBlock of the World without chunks
flatAddBlock(w, cell, type) ==
    IF cell \in DOMAIN w.blocks THEN w
    ELSE [blocks |-> (cell :> type) @@ w.blocks,
          instancedMeshes |-> w.instancedMeshes,
          dynamicMeshes |-> (cell :> type) @@ w.dynamicMeshes]

\* the else branch of removeBlock: the optimized meshes after the mesh of the
\* block's type has been removed and rebuilt from the remaining blocks of the type
rebuildOptimized(w, cell) ==
    LET blockType == w.blocks[cell]
        remainingBlocks == {c \in DOMAIN w.blocks : w.blocks[c] = blockType /\ c # cell}
        others == [t \in DOMAIN w.instancedMeshes \ {blockType} |-> w.instancedMeshes[t]]
    IN IF blockType \notin DOMAIN w.instancedMeshes THEN w.instancedMeshes
       ELSE IF remainingBlocks = {} THEN others
       ELSE (blockType :> createMeshGeometry(remainingBlocks, {})) @@ others

\* removeBlock of the World without chunks
flatRemoveBlock(w, cell) ==
    IF cell \notin DOMAIN w.blocks THEN w
    ELSE IF cell \in DOMAIN w.dynamicMeshes
    THEN [blocks |-> deleteBlock(w.blocks, cell),
          instancedMeshes |-> w.instancedMeshes,
          dynamicMeshes |-> deleteBlock(w.dynamicMeshes, cell)]
    ELSE [blocks |-> deleteBlock(w.blocks, cell),
          instancedMeshes |-> rebuildOptimized(w, cell),
          dynamicMeshes |-> w.dynamicMeshes]

---------------------------------------------------------------------------
(* The state machine *)

World == [blocks |-> blocks, chunks |-> chunks]

NoCell == <<0, 0, 0>>

\* no call outside the world has been made
noCall ==
    /\ callArgs = <<>>
    /\ callResult = [done |-> FALSE]

\* new World(scene, seed): empty store, empty registry
newWorld ==
    /\ seed \in Seeds
    /\ blocks = <<>>
    /\ chunks = <<>>
    /\ lastOp = [kind |-> "new", cell |-> NoCell, done |-> FALSE, repeat |-> FALSE]
    /\ visited = {}
    /\ lastMut = [c \in MutCells |-> "none"]
    /\ everGenerated = {}
    /\ regenerated = {}
    /\ lastGenerated = {}
    /\ lastUnloaded = {}
    /\ midBlocks = <<>>
    /\ nMut = 0

Init ==
    /\ noCall
    /\ newWorld

\* a call updateChunks(playerPos)
UpdateChunks(pos) ==
    \E r \in {updateChunks(World, seed, pos)} :
    LET pc == <<chunkCoord(pos[1]), chunkCoord(pos[2])>>
    IN /\ blocks' = r.end.blocks
       /\ chunks' = r.end.chunks
       /\ midBlocks' = r.mid.blocks
       /\ lastOp' = [kind |-> "updateChunks", cell |-> <<pos[1], 0, pos[2]>>, done |-> TRUE,
                     repeat |-> (lastOp.kind = "updateChunks"
                                 /\ lastOp.cell = <<pos[1], 0, pos[2]>>)]
       /\ visited' = visited \cup {pc}
       /\ lastGenerated' = r.gen
       /\ lastUnloaded' = r.unl
       /\ everGenerated' = everGenerated \cup r.gen
       /\ regenerated' = regenerated \cup (r.gen \cap everGenerated)
       /\ UNCHANGED <<seed, lastMut, nMut, callArgs, callResult>>

\* a call addBlock(x, y, z, type), while fewer than limit mutating calls have been made
AddBlock(cell, type, limit) ==
    /\ nMut < limit
    /\ \E r \in {addBlock(World, cell, type)} :
       LET ok == cell \notin DOMAIN blocks
       IN /\ blocks' = r.blocks
          /\ chunks' = r.chunks
          /\ midBlocks' = r.blocks
          /\ lastOp' = [kind |-> "addBlock", cell |-> cell, done |-> ok, repeat |-> FALSE]
          /\ lastMut' = IF ok THEN [lastMut EXCEPT ![cell] = type] ELSE lastMut
          /\ lastGenerated' = {}
          /\ lastUnloaded' = {}
          /\ nMut' = nMut + 1
          /\ UNCHANGED <<seed, visited, everGenerated, regenerated, callArgs, callResult>>

\* a call removeBlock(x, y, z), while fewer than limit mutating calls have been made
RemoveBlock(cell, limit) ==
    /\ nMut < limit
    /\ \E r \in {removeBlock(World, cell)} :
       LET ok == cell \in DOMAIN blocks
       IN /\ blocks' = r.blocks
          /\ chunks' = r.chunks
          /\ midBlocks' = r.blocks
          /\ lastOp' = [kind |-> "removeBlock", cell |-> cell, done |-> ok, repeat |-> FALSE]
          /\ lastMut' = IF ok THEN [lastMut EXCEPT ![cell] = "removed"] ELSE lastMut
          /\ lastGenerated' = {}
          /\ lastUnloaded' = {}
          /\ nMut' = nMut + 1
          /\ UNCHANGED <<seed, visited, everGenerated, regenerated, callArgs, callResult>>

Next ==
    \/ \E pos \in PlayerPositions : UpdateChunks(pos)
    \/ \E cell \in MutCells, type \in PlaceTypes : AddBlock(cell, type, MaxMutations)
    \/ \E cell \in MutCells : RemoveBlock(cell, MaxMutations)

Spec == Init /\ [][Next]_vars

\* a freshly constructed world on which only addBlock / removeBlock are called
NextMutations ==
    \/ \E cell \in MutCells, type \in PlaceTypes : AddBlock(cell, type, MaxFreshMutations)
    \/ \E cell \in MutCells : RemoveBlock(cell, MaxFreshMutations)

SpecMutations == Init /\ [][NextMutations]_vars

---------------------------------------------------------------------------
(* The rebuild calls of a mutation, for any chunk side *)

\* coordinates around the chunk borders of every side of RebuildSizes
RebuildCoords == {-17, -16, -15, -4, -3, -2, -1, 0, 1, 2, 3, 5, 8, 15, 16, 17}

\* chunk sides: the model's, an odd one, the program's
RebuildSizes == {ChunkSize, 3, 16}

InitRebuild ==
    /\ newWorld
    /\ callArgs \in [cell : RebuildCoords \X {0} \X RebuildCoords, size : RebuildSizes]
    /\ callResult = [done |-> FALSE]

\* the rebuild part of a successful addBlock / removeBlock at callArgs.cell
Rebuild ==
    /\ ~ callResult.done
    /\ callResult' = [done |-> TRUE, value |-> rebuildOrder(callArgs.cell, callArgs.size)]
    /\ UNCHANGED <<seed, blocks, chunks, lastOp, visited, lastMut, everGenerated,
                   regenerated, lastGenerated, lastUnloaded, midBlocks, nMut, callArgs>>

SpecRebuild == InitRebuild /\ [][Rebuild]_vars

---------------------------------------------------------------------------
(* GreedyMesher.createMeshGeometry and buildChunkMesh on given block lists *)

\* side of the square layer the input blocks are taken from
MeshSpan == 3

\* the cells an input list is made of: one layer, and one cell above its middle
MeshLayer == (0 .. MeshSpan - 1) \X {0} \X (0 .. MeshSpan - 1)
MeshCap == <<1, 1, 1>>
MeshSets == {S \cup T : S \in SUBSET MeshLayer, T \in {{}, {MeshCap}}}

\* neighbour checks: null, one that reports every cell, one that reports a few
NeighborChecks ==
    { [given |-> FALSE, cells |-> {}],
      [given |-> TRUE, cells |-> (-1 .. MeshSpan) \X (-1 .. 2) \X (-1 .. MeshSpan)],
      [given |-> TRUE, cells |-> {<<1, 1, 1>>, <<0, 1, 0>>, <<-1, 0, 0>>, <<1, -1, 2>>}] }

cellBefore(a, b) ==
    \/ a[1] < b[1]
    \/ a[1] = b[1] /\ a[2] < b[2]
    \/ a[1] = b[1] /\ a[2] = b[2] /\ a[3] < b[3]

\* the cells of S in ascending order
RECURSIVE cellsInOrder(_)
cellsInOrder(S) ==
    IF S = {} THEN <<>>
    ELSE Let(CHOOSE m \in S : \A o \in S : m = o \/ cellBefore(m, o),
             LAMBDA m : <<m>> \o cellsInOrder(S \ {m}))

reversed(list) == [i \in 1 .. Len(list) |-> list[Len(list) + 1 - i]]

\* three lists with the cells of S: ascending, descending, and descending followed
\* by ascending (every cell twice)
Arrangements(S) ==
    {cellsInOrder(S), reversed(cellsInOrder(S)), reversed(cellsInOrder(S)) \o cellsInOrder(S)}

\* the chunk buildChunkMesh is called on, and the handles it holds before the call
MeshedChunk == <<1, 1>>
staleMeshes == ("stone" :> {<<<<2, 0, 2>>, <<0, 1, 0>>>>})

InitMesher ==
    /\ newWorld
    /\ callArgs \in [blocks : UNION {Arrangements(S) : S \in MeshSets},
                     neighborCheck : NeighborChecks]
    /\ callResult = [done |-> FALSE]

\* GreedyMesher.createMeshGeometry(blocks, 1, neighborCheck)
CreateMeshGeometry ==
    /\ ~ callResult.done
    /\ callResult' = [done |-> TRUE, op |-> "createMeshGeometry",
                      value |-> createMeshQuads(callArgs.blocks, callArgs.neighborCheck, FALSE)]
    /\ UNCHANGED <<seed, blocks, chunks, lastOp, visited, lastMut, everGenerated,
                   regenerated, lastGenerated, lastUnloaded, midBlocks, nMut, callArgs>>

\* the world buildChunkMesh is called in: the listed blocks, all stone, and the
\* chunk MeshedChunk loaded, with handles from an earlier build
meshedWorld ==
    [blocks |-> [cell \in blockSetOf(callArgs.blocks) |-> "stone"],
     chunks |-> (MeshedChunk :> staleMeshes)]

\* buildChunkMesh(cx, cz) on MeshedChunk
BuildChunkMesh ==
    /\ ~ callResult.done
    /\ callResult' = [done |-> TRUE, op |-> "buildChunkMesh",
                      value |-> buildChunkMesh(meshedWorld, MeshedChunk).chunks[MeshedChunk]]
    /\ UNCHANGED <<seed, blocks, chunks, lastOp, visited, lastMut, everGenerated,
                   regenerated, lastGenerated, lastUnloaded, midBlocks, nMut, callArgs>>

NextMesher ==
    \/ CreateMeshGeometry
    \/ BuildChunkMesh

SpecMesher == InitMesher /\ [][NextMesher]_vars

---------------------------------------------------------------------------
(* GreedyMesher.createMeshGeometry with and without isHalfHeight *)

\* height of the column of cells that may stand on top of the cube of input cells
GeometryTop == 1

\* the cells an input list is made of: a cube of two by two by two cells around the
\* origin, and the cells of a column on top of it
GeometryCube == (-1 .. 0) \X (-1 .. 0) \X (-1 .. 0)
GeometryCaps == {<<0, y, 0>> : y \in 1 .. GeometryTop}
GeometrySets == {S \cup T : S \in SUBSET GeometryCube, T \in SUBSET GeometryCaps}

\* neighbour checks: null, and one that reports a few cells around the cube
GeometryChecks ==
    { [given |-> FALSE, cells |-> {}],
      [given |-> TRUE, cells |-> {<<-2, 0, 0>>, <<0, -2, 0>>, <<0, 0, 1>>}] }

InitGeometry ==
    /\ newWorld
    /\ callArgs \in [blocks : {cellsInOrder(S) : S \in GeometrySets},
                     neighborCheck : GeometryChecks,
                     isHalfHeight : BOOLEAN]
    /\ callResult = [done |-> FALSE]

\* GreedyMesher.createMeshGeometry(blocks, 1, neighborCheck, isHalfHeight)
CreateGeometry ==
    /\ ~ callResult.done
    /\ callResult' = [done |-> TRUE,
                      value |-> createMeshQuads(callArgs.blocks, callArgs.neighborCheck,
                                                callArgs.isHalfHeight)]
    /\ UNCHANGED <<seed, blocks, chunks, lastOp, visited, lastMut, everGenerated,
                   regenerated, lastGenerated, lastUnloaded, midBlocks, nMut, callArgs>>

SpecGeometry == InitGeometry /\ [][CreateGeometry]_vars

---------------------------------------------------------------------------
(* The records of the Block Store under addBlock and removeBlock at any point *)

\* calls made on one store
MaxPointCalls == 3

\* coordinates are counted in half blocks: a point is a cell corner or a cell centre
PointCoords == (- HalfUnits) .. (HalfUnits + 1)
Points == PointCoords \X (0 .. 1) \X (0 .. HalfUnits)
PointTypes == {"grass", "stone"}

\* getBlockKey: the cell of a point, Math.floor of each coordinate
getBlockKey(point) == <<point[1] \div HalfUnits, point[2] \div HalfUnits, point[3] \div HalfUnits>>

\* the record setBlockData writes for the integer coordinates of generateChunk
terrainRecord(cell, type) ==
    [x |-> HalfUnits * cell[1], y |-> HalfUnits * cell[2], z |-> HalfUnits * cell[3],
     type |-> type]

\* the store part of addBlock(x, y, z, type): this.blocks.set(key, { x, y, z, type })
addBlockAt(store, point, type) ==
    IF getBlockKey(point) \in DOMAIN store THEN store
    ELSE store @@ (getBlockKey(point) :>
                      [x |-> point[1], y |-> point[2], z |-> point[3], type |-> type])

\* the store part of removeBlock(x, y, z)
removeBlockAt(store, point) ==
    [key \in DOMAIN store \ {getBlockKey(point)} |-> store[key]]

\* the mesher's blockSet of a list of records: `${b.x},${b.y},${b.z}`
recordKeys(store) == {<<store[key].x, store[key].y, store[key].z>> : key \in DOMAIN store}

InitPoints ==
    /\ newWorld
    /\ callArgs \in [terrain : {<<>>, (<<0, 0, 0>>) :> terrainRecord(<<0, 0, 0>>, "stone"),
                                (<<-1, 0, 0>>) :> terrainRecord(<<-1, 0, 0>>, "grass")}]
    /\ callResult = [done |-> FALSE, store |-> callArgs.terrain, calls |-> 0]

AddBlockAt(point, type) ==
    /\ callResult.calls < MaxPointCalls
    /\ callResult' = [done |-> TRUE, store |-> addBlockAt(callResult.store, point, type),
                      calls |-> callResult.calls + 1]
    /\ UNCHANGED <<seed, blocks, chunks, lastOp, visited, lastMut, everGenerated,
                   regenerated, lastGenerated, lastUnloaded, midBlocks, nMut, callArgs>>

RemoveBlockAt(point) ==
    /\ callResult.calls < MaxPointCalls
    /\ callResult' = [done |-> TRUE, store |-> removeBlockAt(callResult.store, point),
                      calls |-> callResult.calls + 1]
    /\ UNCHANGED <<seed, blocks, chunks, lastOp, visited, lastMut, everGenerated,
                   regenerated, lastGenerated, lastUnloaded, midBlocks, nMut, callArgs>>

NextPoints ==
    \/ \E point \in Points, type \in PointTypes : AddBlockAt(point, type)
    \/ \E point \in Points : RemoveBlockAt(point)

SpecPoints == InitPoints /\ [][NextPoints]_vars

---------------------------------------------------------------------------
(* A SeededRandom on which next() and nextInt(0, 4) are called *)

\* calls made on one generator
MaxCalls == 6

\* integer seeds: small ones, seeds of chunks at negative coordinates, the largest
\* seeds whose product is below 2^53, the two integers congruent to the only
\* predecessor of 0x7fffffff modulo 2^31, and seeds near the ends of the 31-bit range
RandomSeeds ==
    {0, 1, 2, 42, 4321, 9876, 123456, 999999, -1, -4321, -113576, -1000000,
     8162278, 8162279, -8162278, -8162279, 230538014, -1916945634,
     230538013, 230538015, 1073741823, 1073741824, 2147483646, 2147483647, -2147483647}

InitRandom ==
    /\ newWorld
    /\ callArgs \in [seed : RandomSeeds]
    /\ callResult = [done |-> FALSE, seed |-> callArgs.seed, calls |-> 0]

\* random.next(): value is the numerator of the returned value seed / 0x7fffffff
NextCall ==
    /\ callResult.calls < MaxCalls
    /\ \E s \in {nextSeed(callResult.seed)} :
          callResult' = [done |-> TRUE, seed |-> s, calls |-> callResult.calls + 1,
                         op |-> "next", value |-> s]
    /\ UNCHANGED <<seed, blocks, chunks, lastOp, visited, lastMut, everGenerated,
                   regenerated, lastGenerated, lastUnloaded, midBlocks, nMut, callArgs>>

\* random.nextInt(0, 4)
NextIntCall ==
    /\ callResult.calls < MaxCalls
    /\ \E s \in {nextSeed(callResult.seed)} :
          callResult' = [done |-> TRUE, seed |-> s, calls |-> callResult.calls + 1,
                         op |-> "nextInt", value |-> nextIntOf(s, 0, 4)]
    /\ UNCHANGED <<seed, blocks, chunks, lastOp, visited, lastMut, everGenerated,
                   regenerated, lastGenerated, lastUnloaded, midBlocks, nMut, callArgs>>

NextRandom ==
    \/ NextCall
    \/ NextIntCall

SpecRandom == InitRandom /\ [][NextRandom]_vars

---------------------------------------------------------------------------
(* Lookups on given Block Stores *)

\* heights at which column (0, 0) may hold a block: around both ends of the scanned
\* range, around the returned -1, and in between
LookupHeights == {-51, -50, -2, -1, 0, 1, 50, 51}

\* columns and heights that are looked up
LookupColumns == {<<0, 0>>, <<1, 0>>, <<2, 0>>}
LookupCells == {<<0, -1, 0>>, <<0, 0, 0>>, <<0, 51, 0>>, <<1, 3, 0>>, <<2, 0, 0>>}

\* a Block Store with blocks of column (0, 0) at the heights ys and one block in
\* column (1, 0); column (2, 0) is empty
lookupStore(ys) ==
    [cell \in {<<0, y, 0>> : y \in ys} \cup {<<1, 3, 0>>} |->
        IF cell[1] = 0 THEN "stone" ELSE "dirt"]

InitLookup ==
    /\ newWorld
    /\ callArgs \in [store : {lookupStore(ys) : ys \in SUBSET LookupHeights}]
    /\ callResult = [done |-> FALSE]

\* world.getHighestBlockAt(x, z)
GetHighestBlockAt(col) ==
    /\ ~ callResult.done
    /\ callResult' = [done |-> TRUE, op |-> "getHighestBlockAt", at |-> <<col[1], 0, col[2]>>,
                      value |-> getHighestBlockAt(callArgs.store, col[1], col[2])]
    /\ UNCHANGED <<seed, blocks, chunks, lastOp, visited, lastMut, everGenerated,
                   regenerated, lastGenerated, lastUnloaded, midBlocks, nMut, callArgs>>

\* world.getBlock(x, y, z)
GetBlock(cell) ==
    /\ ~ callResult.done
    /\ callResult' = [done |-> TRUE, op |-> "getBlock", at |-> cell,
                      value |-> getBlockValue(callArgs.store, cell)]
    /\ UNCHANGED <<seed, blocks, chunks, lastOp, visited, lastMut, everGenerated,
                   regenerated, lastGenerated, lastUnloaded, midBlocks, nMut, callArgs>>

\* world.isBlockAt(x, y, z)
IsBlockAt(cell) ==
    /\ ~ callResult.done
    /\ callResult' = [done |-> TRUE, op |-> "isBlockAt", at |-> cell,
                      value |-> isBlockAt(callArgs.store, cell)]
    /\ UNCHANGED <<seed, blocks, chunks, lastOp, visited, lastMut, everGenerated,
                   regenerated, lastGenerated, lastUnloaded, midBlocks, nMut, callArgs>>

NextLookup ==
    \/ \E col \in LookupColumns : GetHighestBlockAt(col)
    \/ \E cell \in LookupCells : GetBlock(cell)
    \/ \E cell \in LookupCells : IsBlockAt(cell)

SpecLookup == InitLookup /\ [][NextLookup]_vars

---------------------------------------------------------------------------
(* addBlock / removeBlock on a World without chunks *)

\* addBlock / removeBlock calls made on one world
MaxFlatCalls == 3

\* the cells and types of the generated terrain and of the calls
FlatCells == {<<0, 0, 0>>, <<1, 0, 0>>, <<2, 0, 0>>}
FlatTypes == {"stone", "dirt"}

\* generated terrains: some of the cells, each of some type
FlatTerrains == UNION {[S -> FlatTypes] : S \in SUBSET FlatCells}

InitFlat ==
    /\ newWorld
    /\ callArgs \in [blockData : FlatTerrains]
    /\ callResult = [done |-> FALSE, world |-> flatWorld(callArgs.blockData),
                     placed |-> {}, calls |-> 0]

\* world.addBlock(x, y, z, type); placed: the blocks added by calls and still stored
FlatAddBlock(cell, type) ==
    /\ callResult.calls < MaxFlatCalls
    /\ callResult' = [done |-> TRUE, world |-> flatAddBlock(callResult.world, cell, type),
                      placed |-> IF cell \in DOMAIN callResult.world.blocks
                                 THEN callResult.placed
                                 ELSE callResult.placed \cup {cell},
                      calls |-> callResult.calls + 1]
    /\ UNCHANGED <<seed, blocks, chunks, lastOp, visited, lastMut, everGenerated,
                   regenerated, lastGenerated, lastUnloaded, midBlocks, nMut, callArgs>>

\* world.removeBlock(x, y, z)
FlatRemoveBlock(cell) ==
    /\ callResult.calls < MaxFlatCalls
    /\ callResult' = [done |-> TRUE, world |-> flatRemoveBlock(callResult.world, cell),
                      placed |-> callResult.placed \ {cell},
                      calls |-> callResult.calls + 1]
    /\ UNCHANGED <<seed, blocks, chunks, lastOp, visited, lastMut, everGenerated,
                   regenerated, lastGenerated, lastUnloaded, midBlocks, nMut, callArgs>>

NextFlat ==
    \/ \E cell \in FlatCells, type \in FlatTypes : FlatAddBlock(cell, type)
    \/ \E cell \in FlatCells : FlatRemoveBlock(cell)

SpecFlat == InitFlat /\ [][NextFlat]_vars

---------------------------------------------------------------------------
(* updateChunks step by step: callArgs is the call in progress, callResult  *)
(* the position in it.  pc is "idle" between calls, "load" at the test of   *)
(* the load loops, "terrain" inside the column loops of generateChunk,      *)
(* "register" before this.chunks.set, "mesh" before the buildChunkMesh call *)
(* that ends generateChunk, "unload" before the unload loop.                *)

NoChunk == <<0, 0>>

\* variant: the column loops are left after the first column
columnsDoneEarly(col) == col > 1

\* the column loops of generateChunk are over after ChunkSize * ChunkSize columns
columnsDone(col) == col > ChunkSize * ChunkSize

InitLifecycle ==
    /\ newWorld
    /\ callArgs = [pos |-> <<0, 0>>]
    /\ callResult = [done |-> FALSE, pc |-> "idle", i |-> 1, col |-> 1, c |-> NoChunk,
                     rng |-> 0, start |-> World, registered |-> {}, built |-> {}]

lifecycleWorldUnchanged ==
    UNCHANGED <<seed, lastOp, visited, lastMut, everGenerated, regenerated, lastGenerated,
                lastUnloaded, midBlocks, nMut>>

\* updateChunks(playerPos) is called
BeginUpdateChunks(pos) ==
    /\ callResult.pc = "idle"
    /\ callArgs' = [pos |-> pos]
    /\ callResult' = [done |-> FALSE, pc |-> "load", i |-> 1, col |-> 1, c |-> NoChunk,
                      rng |-> 0, start |-> World, registered |-> {}, built |-> {}]
    /\ UNCHANGED <<blocks, chunks>>
    /\ lifecycleWorldUnchanged

\* the chunk of the player and the chunk the load loops are at
lifecyclePlayerChunk == <<chunkCoord(callArgs.pos[1]), chunkCoord(callArgs.pos[2])>>
lifecycleTarget == loadTarget(lifecyclePlayerChunk, callResult.i)

\* one round of the load loops: skip a registered chunk, or enter generateChunk
LoadTest ==
    /\ callResult.pc = "load"
    /\ callResult.i <= LoadSpan * LoadSpan
    /\ callResult' =
          IF lifecycleTarget \in DOMAIN chunks
          THEN [callResult EXCEPT !.i = callResult.i + 1]
          ELSE [callResult EXCEPT !.pc = "terrain", !.col = 1, !.c = lifecycleTarget,
                   !.rng = seed + lifecycleTarget[1] * ChunkSeedX
                                + lifecycleTarget[2] * ChunkSeedZ]
    /\ UNCHANGED <<blocks, chunks, callArgs>>
    /\ lifecycleWorldUnchanged

\* the load loops are over
LoadDone ==
    /\ callResult.pc = "load"
    /\ callResult.i > LoadSpan * LoadSpan
    /\ callResult' = [callResult EXCEPT !.pc = "unload"]
    /\ UNCHANGED <<blocks, chunks, callArgs>>
    /\ lifecycleWorldUnchanged

\* one column of generateChunk: terrain, then the tree
WriteColumn ==
    /\ callResult.pc = "terrain"
    /\ ~ columnsDone(callResult.col)
    /\ \E g \in {generateColumn([blocks |-> blocks, rng |-> callResult.rng], seed,
                                chunkColumn(callResult.c, callResult.col)[1],
                                chunkColumn(callResult.c, callResult.col)[2])} :
          /\ blocks' = g.blocks
          /\ callResult' = [callResult EXCEPT !.col = callResult.col + 1, !.rng = g.rng]
    /\ UNCHANGED <<chunks, callArgs>>
    /\ lifecycleWorldUnchanged

\* the column loops are over
ColumnsDone ==
    /\ callResult.pc = "terrain"
    /\ columnsDone(callResult.col)
    /\ callResult' = [callResult EXCEPT !.pc = "register"]
    /\ UNCHANGED <<blocks, chunks, callArgs>>
    /\ lifecycleWorldUnchanged

\* this.chunks.set(key, { meshes: new Map() })
RegisterChunk ==
    /\ callResult.pc = "register"
    /\ chunks' = (callResult.c :> <<>>) @@ chunks
    /\ callResult' = [callResult EXCEPT !.pc = "mesh",
                         !.registered = callResult.registered \cup {callResult.c}]
    /\ UNCHANGED <<blocks, callArgs>>
    /\ lifecycleWorldUnchanged

\* this.buildChunkMesh(cx, cz), the last statement of generateChunk
BuildFirstMesh ==
    /\ callResult.pc = "mesh"
    /\ chunks' = buildChunkMesh(World, callResult.c).chunks
    /\ callResult' = [callResult EXCEPT !.pc = "load", !.i = callResult.i + 1,
                         !.c = NoChunk, !.built = callResult.built \cup {callResult.c}]
    /\ UNCHANGED <<blocks, callArgs>>
    /\ lifecycleWorldUnchanged

\* the unload loop, and the return of updateChunks
UnloadFar ==
    /\ callResult.pc = "unload"
    /\ chunks' = unloadLoop([w |-> World, unl |-> {}], lifecyclePlayerChunk,
                            chunksInOrder(DOMAIN chunks), 1, Cardinality(DOMAIN chunks)).w.chunks
    /\ callResult' = [callResult EXCEPT !.pc = "idle", !.done = TRUE]
    /\ UNCHANGED <<blocks, callArgs>>
    /\ lifecycleWorldUnchanged

NextLifecycle ==
    \/ \E pos \in PlayerPositions : BeginUpdateChunks(pos)
    \/ LoadTest
    \/ LoadDone
    \/ WriteColumn
    \/ ColumnsDone
    \/ RegisterChunk
    \/ BuildFirstMesh
    \/ UnloadFar

SpecLifecycle == InitLifecycle /\ [][NextLifecycle]_vars

---------------------------------------------------------------------------
(* The chunk a point belongs to, and the chunks whose scan covers its cell *)

\* chunk sides: the model's and the program's
PartitionSizes == {ChunkSize, 16}

\* coordinates of the point, in half blocks, around the chunk borders of both sides
PartitionXs == (-36 .. -28) \cup (-6 .. 6) \cup (28 .. 36)
PartitionZs == {-33, -32, -5, -4, -1, 0, 1, 3, 4, 31, 32}

\* the chunks looked at: all that can hold a point of the sets above
PartitionChunks == (-9 .. 9) \X (-9 .. 9)

\* cx = Math.floor(x / this.chunkSize), cz = Math.floor(z / this.chunkSize), for a
\* point given in half blocks
owningChunk(point, size) == chunkAt(point[1], point[2], HalfUnits * size)

\* the x and z the loops of getBlocksInChunk(cx, cz) run over
scanRange(c, size) ==
    ((c[1] * size) .. ((c[1] + 1) * size - 1)) \X ((c[2] * size) .. ((c[2] + 1) * size - 1))

InitPartition ==
    /\ newWorld
    /\ callArgs \in [point : PartitionXs \X PartitionZs, size : PartitionSizes]
    /\ callResult = [done |-> FALSE]

\* the chunk addBlock / removeBlock / updateChunks compute for the point, and the
\* chunks whose getBlocksInChunk reads the key of the point
LocateChunk ==
    /\ ~ callResult.done
    /\ callResult' = [done |-> TRUE,
                      owner |-> owningChunk(callArgs.point, callArgs.size),
                      scanning |-> {c \in PartitionChunks :
                                       <<callArgs.point[1] \div HalfUnits,
                                         callArgs.point[2] \div HalfUnits>>
                                           \in scanRange(c, callArgs.size)}]
    /\ UNCHANGED <<seed, blocks, chunks, lastOp, visited, lastMut, everGenerated,
                   regenerated, lastGenerated, lastUnloaded, midBlocks, nMut, callArgs>>

SpecPartition == InitPartition /\ [][LocateChunk]_vars

---------------------------------------------------------------------------
(* addBlock / removeBlock along two columns of a loaded chunk, at heights   *)
(* inside and outside the vertical scan of getBlocksInChunk                 *)

\* mutating calls made on the world
MaxColumnCalls == 3

ColumnHeights == {ScanMinY - 1, ScanMinY, ScanMaxY - 1, ScanMaxY}
ColumnCells == {<<x, y, 0>> : x \in {0, 1}, y \in ColumnHeights}

\* updateChunks with the player at the origin
ColumnLoad ==
    /\ chunks = <<>>
    /\ UpdateChunks(<<0, 0>>)

\* addBlock(x, y, z, 'stone')
ColumnAddBlock(cell) ==
    /\ nMut < MaxColumnCalls
    /\ \E r \in {addBlock(World, cell, "stone")} :
          /\ blocks' = r.blocks
          /\ chunks' = r.chunks
          /\ midBlocks' = r.blocks
          /\ lastOp' = [kind |-> "addBlock", cell |-> cell,
                        done |-> cell \notin DOMAIN blocks, repeat |-> FALSE]
          /\ nMut' = nMut + 1
          /\ UNCHANGED <<seed, visited, lastMut, everGenerated, regenerated, lastGenerated,
                         lastUnloaded, callArgs, callResult>>

\* removeBlock(x, y, z)
ColumnRemoveBlock(cell) ==
    /\ nMut < MaxColumnCalls
    /\ \E r \in {removeBlock(World, cell)} :
          /\ blocks' = r.blocks
          /\ chunks' = r.chunks
          /\ midBlocks' = r.blocks
          /\ lastOp' = [kind |-> "removeBlock", cell |-> cell,
                        done |-> cell \in DOMAIN blocks, repeat |-> FALSE]
          /\ nMut' = nMut + 1
          /\ UNCHANGED <<seed, visited, lastMut, everGenerated, regenerated, lastGenerated,
                         lastUnloaded, callArgs, callResult>>

NextColumn ==
    \/ ColumnLoad
    \/ \E cell \in ColumnCells : ColumnAddBlock(cell)
    \/ \E cell \in ColumnCells : ColumnRemoveBlock(cell)

SpecColumn == Init /\ [][NextColumn]_vars

---------------------------------------------------------------------------
(* The scene: the meshes buildChunkMesh adds to it and the meshes that      *)
(* buildChunkMesh and unloadChunk remove from it and dispose.               *)
(* s = [blocks, handles, scene, meshes, serial]: handles[c][type] is the    *)
(* mesh chunk.meshes holds for the type, scene the meshes in the scene,     *)
(* meshes[id] what is known of every mesh ever made (its chunk, its type,   *)
(* the unit faces of its geometry, the number of dispose calls on its       *)
(* geometry); a mesh is named by the serial number of the buildChunkMesh    *)
(* call that made it and its type.                                          *)

\* calls made on one world
MaxSceneCalls == 4

handlesOf(s, c) == {s.handles[c][t] : t \in DOMAIN s.handles[c]}

\* variant: the old meshes are disposed but stay in the scene
removeAndDisposeKeepsScene(s, old) ==
    [s EXCEPT !.meshes = [id \in DOMAIN s.meshes |->
                             IF id \in old
                             THEN [s.meshes[id] EXCEPT !.disposed = s.meshes[id].disposed + 1]
                             ELSE s.meshes[id]]]

\* chunk.meshes.forEach(mesh => { scene.remove(mesh); mesh.geometry.dispose(); })
removeAndDispose(s, old) ==
    [s EXCEPT !.scene = s.scene \ old,
              !.meshes = [id \in DOMAIN s.meshes |->
                             IF id \in old
                             THEN [s.meshes[id] EXCEPT !.disposed = s.meshes[id].disposed + 1]
                             ELSE s.meshes[id]]]

\* buildChunkMesh(cx, cz) with its effect on the scene
buildChunkMeshInScene(s, c) ==
    IF c \notin DOMAIN s.handles THEN s
    ELSE Let(removeAndDispose(s, handlesOf(s, c)),
         LAMBDA cleared : Let(chunkMeshes(s.blocks, c),
         LAMBDA built :
             [blocks |-> s.blocks,
              handles |-> (c :> [t \in DOMAIN built |-> <<s.serial, t>>]) @@ s.handles,
              scene |-> cleared.scene \cup {<<s.serial, t>> : t \in DOMAIN built},
              meshes |-> [id \in {<<s.serial, t>> : t \in DOMAIN built} |->
                             [chunk |-> c, type |-> id[2], faces |-> built[id[2]],
                              disposed |-> 0]] @@ cleared.meshes,
              serial |-> s.serial + 1]))

\* generateChunk(cx, cz) with its effect on the scene
generateChunkInScene(s, sd, c) ==
    Let(chunkTerrain(s.blocks, sd, c),
        LAMBDA filled : buildChunkMeshInScene([s EXCEPT !.blocks = filled,
                                                        !.handles = (c :> <<>>) @@ s.handles],
                                              c))

\* unloadChunk(cx, cz) with its effect on the scene
unloadChunkInScene(s, c) ==
    IF c \notin DOMAIN s.handles THEN s
    ELSE Let(removeAndDispose(s, handlesOf(s, c)),
             LAMBDA cleared : [cleared EXCEPT !.handles =
                                  [k \in DOMAIN s.handles \ {c} |-> s.handles[k]]])

\* the load loops from iteration i on
RECURSIVE loadLoopInScene(_, _, _, _)
loadLoopInScene(s, sd, pc, i) ==
    IF i > LoadSpan * LoadSpan THEN s
    ELSE Let(IF loadTarget(pc, i) \in DOMAIN s.handles THEN s
             ELSE generateChunkInScene(s, sd, loadTarget(pc, i)),
             LAMBDA next : loadLoopInScene(next, sd, pc, i + 1))

\* the unload loop over the registry entries order[i], order[i + 1], ...
RECURSIVE unloadLoopInScene(_, _, _, _)
unloadLoopInScene(s, pc, order, i) ==
    IF i > Len(order) THEN s
    ELSE Let(IF tooFar(order[i], pc) THEN unloadChunkInScene(s, order[i]) ELSE s,
             LAMBDA next : unloadLoopInScene(next, pc, order, i + 1))

\* updateChunks(playerPos) with its effect on the scene
updateChunksInScene(s, sd, pos) ==
    Let(loadLoopInScene(s, sd, <<chunkCoord(pos[1]), chunkCoord(pos[2])>>, 1),
        LAMBDA loaded : unloadLoopInScene(loaded, <<chunkCoord(pos[1]), chunkCoord(pos[2])>>,
                                          chunksInOrder(DOMAIN loaded.handles), 1))

RECURSIVE rebuildAllInScene(_, _)
rebuildAllInScene(s, todo) ==
    IF todo = {} THEN s
    ELSE Let(CHOOSE k \in todo : TRUE,
             LAMBDA c : Let(buildChunkMeshInScene(s, c),
             LAMBDA next : rebuildAllInScene(next, todo \ {c})))

\* addBlock(x, y, z, type) with its effect on the scene
addBlockInScene(s, cell, type) ==
    IF cell \in DOMAIN s.blocks THEN s
    ELSE Let(buildChunkMeshInScene([s EXCEPT !.blocks = setBlockData(s.blocks, cell, type)],
                                   chunkOfCell(cell)),
             LAMBDA own : rebuildAllInScene(own, neighborsToUpdate(cell)))

\* removeBlock(x, y, z) with its effect on the scene
removeBlockInScene(s, cell) ==
    IF cell \notin DOMAIN s.blocks THEN s
    ELSE Let(buildChunkMeshInScene([s EXCEPT !.blocks = deleteBlock(s.blocks, cell)],
                                   chunkOfCell(cell)),
             LAMBDA own : rebuildAllInScene(own, neighborsToUpdate(cell)))

\* new World(scene, seed): nothing stored, nothing registered, nothing in the scene
InitScene ==
    /\ newWorld
    /\ callArgs = <<>>
    /\ callResult = [done |-> FALSE, calls |-> 0,
                     s |-> [blocks |-> <<>>, handles |-> <<>>, scene |-> {},
                            meshes |-> <<>>, serial |-> 0]]

\* a call updateChunks(playerPos)
SceneUpdateChunks(pos) ==
    /\ callResult.calls < MaxSceneCalls
    /\ callResult' = [done |-> TRUE, calls |-> callResult.calls + 1,
                      s |-> updateChunksInScene(callResult.s, seed, pos)]
    /\ UNCHANGED <<seed, blocks, chunks, lastOp, visited, lastMut, everGenerated,
                   regenerated, lastGenerated, lastUnloaded, midBlocks, nMut, callArgs>>

\* a call addBlock(x, y, z, type)
SceneAddBlock(cell, type) ==
    /\ callResult.calls < MaxSceneCalls
    /\ callResult' = [done |-> TRUE, calls |-> callResult.calls + 1,
                      s |-> addBlockInScene(callResult.s, cell, type)]
    /\ UNCHANGED <<seed, blocks, chunks, lastOp, visited, lastMut, everGenerated,
                   regenerated, lastGenerated, lastUnloaded, midBlocks, nMut, callArgs>>

\* a call removeBlock(x, y, z)
SceneRemoveBlock(cell) ==
    /\ callResult.calls < MaxSceneCalls
    /\ callResult' = [done |-> TRUE, calls |-> callResult.calls + 1,
                      s |-> removeBlockInScene(callResult.s, cell)]
    /\ UNCHANGED <<seed, blocks, chunks, lastOp, visited, lastMut, everGenerated,
                   regenerated, lastGenerated, lastUnloaded, midBlocks, nMut, callArgs>>

NextScene ==
    \/ \E pos \in PlayerPositions : SceneUpdateChunks(pos)
    \/ \E cell \in MutCells, type \in PlaceTypes : SceneAddBlock(cell, type)
    \/ \E cell \in MutCells : SceneRemoveBlock(cell)

SpecScene == InitScene /\ [][NextScene]_vars

---------------------------------------------------------------------------
(* WeatherSystem: snow accumulation and melting on a World, with a player   *)
(* who places and breaks blocks in between.                                 *)
(* st = [weather, blocks, tracked, placed, removed, dropped]: the current   *)
(* weather, the world's Block Store, accumulatedSnowPositions, the cells    *)
(* the last tick called world.addBlock / world.removeBlock on, and the      *)
(* positions the last tick took out of tracking without a removeBlock.      *)

\* calls of cycleWeather, accumulation ticks and player actions on one world
MaxWeatherCalls == 6

\* this.snowBlocksPerTick (3 in the program) and the factor of maxAttempts (10)
SnowBlocksPerTick == 2
AttemptFactor == 2
\* this.snowMeltPerTick
SnowMeltPerTick == 2
\* this.snowAccumulationRadius (20 in the program)
SnowRadius == 1

weatherTypes == <<"sunny", "rain", "snow">>
snowableBlocks == {"grass", "dirt", "stone", "leaves", "sand", "wood", "plank", "brick"}

\* the player's column: Math.floor(playerPos.x), Math.floor(playerPos.z)
WeatherPlayer == <<0, 0>>

\* playerX + Math.floor((Math.random() - 0.5) * radius * 2), likewise z
SnowColumns ==
    {<<WeatherPlayer[1] + dx, WeatherPlayer[2] + dz>> :
         dx \in (- SnowRadius) .. (SnowRadius - 1), dz \in (- SnowRadius) .. (SnowRadius - 1)}

\* the worlds a WeatherSystem is attached to: four columns, topped by grass and by
\* water at height 0, by stone at height -1, and by leaves over stone at height 1
WeatherTerrain ==
    (<<-1, 0, -1>> :> "grass") @@ (<<0, 0, -1>> :> "water") @@ (<<-1, -1, 0>> :> "stone")
    @@ (<<0, 0, 0>> :> "stone") @@ (<<0, 1, 0>> :> "leaves")

\* cells the player breaks blocks at and places blocks into, and the types placed
WeatherCells == {<<-1, 1, -1>>, <<0, 2, 0>>, <<-1, 0, 0>>}
WeatherTypes == {"stone"}

\* variant: the tracked set is not consulted and a snow top counts as snowable
accumulateStepOnSnow(st, col) ==
    LET highestY == getHighestBlockAt(st.blocks, col[1], col[2])
        type     == getBlock(st.blocks, <<col[1], highestY, col[2]>>)
        snowCell == <<col[1], highestY + 1, col[2]>>
    IN IF st.count >= SnowBlocksPerTick THEN st
       ELSE IF highestY < 0 THEN st
       ELSE IF type = "absent" THEN st
       ELSE IF type = "water" THEN st
       ELSE IF type \notin snowableBlocks \cup {"snow"} THEN st
       ELSE IF isBlockAt(st.blocks, snowCell) THEN st
       ELSE [st EXCEPT !.blocks = addBlockData(st.blocks, snowCell, "snow"),
                       !.tracked = st.tracked \cup {snowCell},
                       !.placed = st.placed \cup {snowCell},
                       !.count = st.count + 1]

\* one pass of the loop of accumulateSnow, for the column drawn; st.count is placed
accumulateStep(st, col) ==
    LET highestY == getHighestBlockAt(st.blocks, col[1], col[2])
        type     == getBlock(st.blocks, <<col[1], highestY, col[2]>>)
        snowCell == <<col[1], highestY + 1, col[2]>>
    IN IF st.count >= SnowBlocksPerTick THEN st
       ELSE IF highestY < 0 THEN st
       ELSE IF type = "absent" THEN st
       ELSE IF type = "water" \/ type = "snow" THEN st
       ELSE IF type \notin snowableBlocks THEN st
       ELSE IF snowCell \in st.tracked THEN st
       ELSE IF isBlockAt(st.blocks, snowCell) THEN st
       ELSE [st EXCEPT !.blocks = addBlockData(st.blocks, snowCell, "snow"),
                       !.tracked = st.tracked \cup {snowCell},
                       !.placed = st.placed \cup {snowCell},
                       !.count = st.count + 1]

\* the states accumulateSnow can end in: passes attempt + 1 .. maxAttempts of its
\* loop, each on any column of the radius, from any state of S
RECURSIVE accumulateLoop(_, _)
accumulateLoop(S, attempt) ==
    IF attempt >= SnowBlocksPerTick * AttemptFactor THEN S
    ELSE accumulateLoop({accumulateStep(st, col) : st \in S, col \in SnowColumns}, attempt + 1)

\* accumulateSnow(playerPos), the interval since the last accumulation having passed
accumulateSnow(st) ==
    {[weather |-> r.weather, blocks |-> r.blocks, tracked |-> r.tracked,
      placed |-> r.placed, removed |-> {}, dropped |-> {}] :
         r \in accumulateLoop({[weather |-> st.weather, blocks |-> st.blocks,
                                tracked |-> st.tracked, placed |-> {}, count |-> 0]}, 0)}

\* variant: the block at a tracked position is removed whatever its type
meltStepAnyType(st, snowKey) ==
    [st EXCEPT !.blocks = deleteBlock(st.blocks, snowKey),
               !.removed = IF isBlockAt(st.blocks, snowKey)
                           THEN st.removed \cup {snowKey} ELSE st.removed,
               !.tracked = st.tracked \ {snowKey}]

\* one pass of the loop of meltSnow, for the position drawn
meltStep(st, snowKey) ==
    IF getBlock(st.blocks, snowKey) = "snow"
    THEN [st EXCEPT !.blocks = deleteBlock(st.blocks, snowKey),
                    !.removed = st.removed \cup {snowKey},
                    !.tracked = st.tracked \ {snowKey}]
    ELSE [st EXCEPT !.tracked = st.tracked \ {snowKey},
                    !.dropped = st.dropped \cup {snowKey}]

\* variant: a drawn position stays tracked unless its block was snow
RECURSIVE meltLoopKeepsOthers(_, _)
meltLoopKeepsOthers(S, toMelt) ==
    IF toMelt = 0 THEN S
    ELSE meltLoopKeepsOthers(
             UNION {{IF getBlock(st.blocks, snowKey) = "snow" THEN meltStep(st, snowKey) ELSE st :
                        snowKey \in st.tracked} : st \in S},
             toMelt - 1)

\* the states meltSnow can end in after toMelt more passes; the working array
\* snowPositions holds the tracked positions not yet drawn in this tick
RECURSIVE meltLoop(_, _)
meltLoop(S, toMelt) ==
    IF toMelt = 0 THEN S
    ELSE meltLoop(UNION {{meltStep(st, snowKey) : snowKey \in st.tracked} : st \in S},
                  toMelt - 1)

\* meltSnow(playerPos), the interval since the last melt having passed
meltSnow(st) ==
    IF st.tracked = {} THEN {st}
    ELSE meltLoop({[st EXCEPT !.placed = {}, !.removed = {}, !.dropped = {}]},
                  Min(SnowMeltPerTick, Cardinality(st.tracked)))

\* new WeatherSystem(scene, world): sunny, nothing tracked
InitWeather ==
    /\ newWorld
    /\ callArgs = [terrain |-> WeatherTerrain]
    /\ callResult = [done |-> FALSE, op |-> "new", calls |-> 0, index |-> 0,
                     st |-> [weather |-> "sunny", blocks |-> callArgs.terrain, tracked |-> {},
                             placed |-> {}, removed |-> {}, dropped |-> {}]]

\* cycleWeather()
CycleWeather ==
    /\ callResult.calls < MaxWeatherCalls
    /\ callResult' = [done |-> TRUE, op |-> "cycleWeather", calls |-> callResult.calls + 1,
                      index |-> (callResult.index + 1) % Len(weatherTypes),
                      st |-> [callResult.st EXCEPT
                                 !.weather = weatherTypes[((callResult.index + 1) % Len(weatherTypes)) + 1],
                                 !.placed = {}, !.removed = {}, !.dropped = {}]]
    /\ UNCHANGED <<seed, blocks, chunks, lastOp, visited, lastMut, everGenerated,
                   regenerated, lastGenerated, lastUnloaded, midBlocks, nMut, callArgs>>

\* update(playerPos) in snowy weather, an accumulation interval after the last tick
AccumulateTick ==
    /\ callResult.calls < MaxWeatherCalls
    /\ callResult.st.weather = "snow"
    /\ \E next \in accumulateSnow(callResult.st) :
           callResult' = [done |-> TRUE, op |-> "accumulateSnow",
                          calls |-> callResult.calls + 1, index |-> callResult.index,
                          st |-> next]
    /\ UNCHANGED <<seed, blocks, chunks, lastOp, visited, lastMut, everGenerated,
                   regenerated, lastGenerated, lastUnloaded, midBlocks, nMut, callArgs>>

\* update(playerPos) in sunny weather, a melt interval after the last tick, with
\* positions tracked (meltSnow returns at once when there are none)
MeltTick ==
    /\ callResult.st.weather = "sunny"
    /\ callResult.st.tracked # {}
    /\ \E next \in meltSnow(callResult.st) :
           callResult' = [done |-> TRUE, op |-> "meltSnow",
                          calls |-> callResult.calls, index |-> callResult.index,
                          st |-> next]
    /\ UNCHANGED <<seed, blocks, chunks, lastOp, visited, lastMut, everGenerated,
                   regenerated, lastGenerated, lastUnloaded, midBlocks, nMut, callArgs>>

\* the player places a block: world.addBlock(x, y, z, type)
PlayerAddBlock(cell, type) ==
    /\ callResult.calls < MaxWeatherCalls
    /\ callResult' = [done |-> TRUE, op |-> "addBlock", calls |-> callResult.calls + 1,
                      index |-> callResult.index,
                      st |-> [callResult.st EXCEPT
                                 !.blocks = addBlockData(callResult.st.blocks, cell, type),
                                 !.placed = {}, !.removed = {}, !.dropped = {}]]
    /\ UNCHANGED <<seed, blocks, chunks, lastOp, visited, lastMut, everGenerated,
                   regenerated, lastGenerated, lastUnloaded, midBlocks, nMut, callArgs>>

\* the player breaks a block: world.removeBlock(x, y, z)
PlayerRemoveBlock(cell) ==
    /\ callResult.calls < MaxWeatherCalls
    /\ callResult' = [done |-> TRUE, op |-> "removeBlock", calls |-> callResult.calls + 1,
                      index |-> callResult.index,
                      st |-> [callResult.st EXCEPT
                                 !.blocks = deleteBlock(callResult.st.blocks, cell),
                                 !.placed = {}, !.removed = {}, !.dropped = {}]]
    /\ UNCHANGED <<seed, blocks, chunks, lastOp, visited, lastMut, everGenerated,
                   regenerated, lastGenerated, lastUnloaded, midBlocks, nMut, callArgs>>

NextWeather ==
    \/ CycleWeather
    \/ AccumulateTick
    \/ MeltTick
    \/ \E cell \in WeatherCells, type \in WeatherTypes : PlayerAddBlock(cell, type)
    \/ \E cell \in WeatherCells : PlayerRemoveBlock(cell)

SpecWeather == InitWeather /\ [][NextWeather]_vars

\* the game loop calls update on every frame, so in sunny weather a melt tick whose
\* interval has passed comes again and again
SpecWeatherMelting == SpecWeather /\ WF_vars(MeltTick)

---------------------------------------------------------------------------
(* Player.setKeyBinding on the key bindings of a Player *)

\* calls of setKeyBinding on one player
MaxKeyCalls == 3

\* this.keyBindings as the constructor sets it
defaultKeyBindings ==
    [forward |-> "KeyW", backward |-> "KeyS", left |-> "KeyA", right |-> "KeyD",
     jump |-> "Space", down |-> "ShiftLeft"]

\* action names and key codes handed to setKeyBinding: the six actions and two
\* names that are not actions; the six default codes and two others
KeyActions == DOMAIN defaultKeyBindings \cup {"fly", "toString"}
KeyCodes == {"KeyW", "KeyS", "KeyA", "KeyD", "Space", "ShiftLeft", "KeyQ", "ArrowUp"}

\* variant: the key code is bound without looking at the other actions
setKeyBindingUnchecked(keyBindings, action, keyCode) ==
    IF action \notin DOMAIN keyBindings
    THEN [returned |-> FALSE, keyBindings |-> keyBindings]
    ELSE [returned |-> TRUE, keyBindings |-> [keyBindings EXCEPT ![action] = keyCode]]

\* setKeyBinding(action, keyCode): the value returned and the bindings afterwards
setKeyBinding(keyBindings, action, keyCode) ==
    IF action \notin DOMAIN keyBindings
    THEN [returned |-> FALSE, keyBindings |-> keyBindings]
    ELSE IF \E otherAction \in DOMAIN keyBindings :
                otherAction # action /\ keyBindings[otherAction] = keyCode
    THEN [returned |-> FALSE, keyBindings |-> keyBindings]
    ELSE [returned |-> TRUE, keyBindings |-> [keyBindings EXCEPT ![action] = keyCode]]

\* new Player(...)
InitKeys ==
    /\ newWorld
    /\ callArgs = <<>>
    /\ callResult = [done |-> FALSE, calls |-> 0, action |-> "none", keyCode |-> "none",
                     returned |-> FALSE, keyBindings |-> defaultKeyBindings]

\* a call setKeyBinding(action, keyCode)
SetKeyBinding(action, keyCode) ==
    /\ callResult.calls < MaxKeyCalls
    /\ \E r \in {setKeyBinding(callResult.keyBindings, action, keyCode)} :
           callResult' = [done |-> TRUE, calls |-> callResult.calls + 1, action |-> action,
                          keyCode |-> keyCode, returned |-> r.returned,
                          keyBindings |-> r.keyBindings]
    /\ UNCHANGED <<seed, blocks, chunks, lastOp, visited, lastMut, everGenerated,
                   regenerated, lastGenerated, lastUnloaded, midBlocks, nMut, callArgs>>

SpecKeys == InitKeys /\ [][\E action \in KeyActions, keyCode \in KeyCodes :
                              SetKeyBinding(action, keyCode)]_vars

---------------------------------------------------------------------------
(* Game.getBlockPositionFromIntersection on a hit on a face of a chunk mesh *)

\* lengths of a hit point are counted in hundredths of a block
PointUnits == 100
\* const offset = 0.15, in hundredths
HitOffset == 15

\* the blocks hit, the face hit (as an index into faces), and where on the face:
\* the distance of the hit point from the block's low corner along the two axes of
\* the face, in hundredths
HitCells == {<<0, 0, 0>>, <<-1, 2, -3>>, <<2, -1, 0>>}
HitInsets == {1, 25, 49, 50, 75, 99}

\* intersect.point for a hit on the face of the block at cell: the face lies where
\* addQuad puts it (at d + 1 for the positive directions, at d for the others)
hitPoint(cell, face, inU, inV) ==
    coordsOf(face,
             PointUnits * cell[dAxisOf(face) + 1]
                 + (IF face.dir[dAxisOf(face) + 1] > 0 THEN PointUnits ELSE 0),
             PointUnits * cell[face.u + 1] + inU,
             PointUnits * cell[face.v + 1] + inV)

\* Math.round of a length in hundredths
round(p) == (p + (PointUnits \div 2)) \div PointUnits

\* the fallback of getBlockPositionFromIntersection: the point moved by offset
\* against the face normal, each coordinate rounded
blockOf(point, normal) ==
    [k \in 1 .. 3 |-> round(point[k] - HitOffset * normal[k])]

InitHit ==
    /\ newWorld
    /\ callArgs \in [cell : HitCells, face : 1 .. Len(faces), inU : HitInsets, inV : HitInsets]
    /\ callResult = [done |-> FALSE]

\* getBlockPositionFromIntersection(intersect) for a chunk mesh: no
\* userData.position, no blockId attribute
GetBlockPositionFromIntersection ==
    /\ ~ callResult.done
    /\ callResult' = [done |-> TRUE,
                      point |-> hitPoint(callArgs.cell, faces[callArgs.face],
                                         callArgs.inU, callArgs.inV),
                      value |-> blockOf(hitPoint(callArgs.cell, faces[callArgs.face],
                                                 callArgs.inU, callArgs.inV),
                                        faces[callArgs.face].dir)]
    /\ UNCHANGED <<seed, blocks, chunks, lastOp, visited, lastMut, everGenerated,
                   regenerated, lastGenerated, lastUnloaded, midBlocks, nMut, callArgs>>

SpecHit == InitHit /\ [][GetBlockPositionFromIntersection]_vars

---------------------------------------------------------------------------
(* Notions the properties are stated with *)

\* Chebyshev distance between two chunks
chunkDistance(a, b) == Max(Abs(a[1] - b[1]), Abs(a[2] - b[2]))

\* the player chunk of the last updateChunks call
playerChunk == <<chunkCoord(lastOp.cell[1]), chunkCoord(lastOp.cell[3])>>

\* every material but leaves is opaque (leaves: transparent, opacity 0.8)
opaque(type) == type # "leaves"

\* the face of cell towards d is part of the cached geometry of chunk c
rendered(c, cell, d) == \E t \in DOMAIN chunks[c] : <<cell, d>> \in chunks[c][t]

\* the cached meshes of every loaded chunk are what buildChunkMesh would build now
allMeshesFresh == \A c \in DOMAIN chunks : chunks[c] = chunkMeshes(blocks, c)

\* the Block Store obtained from store b by generating the chunks order[lo .. hi],
\* one after the other
RECURSIVE generateInOrder(_, _, _, _, _)
generateInOrder(b, s, order, lo, hi) ==
    IF lo > hi THEN b
    ELSE IF lo = hi THEN chunkTerrain(b, s, order[lo])
    ELSE Let(generateInOrder(b, s, order, lo, (lo + hi) \div 2),
             LAMBDA half : generateInOrder(half, s, order, ((lo + hi) \div 2) + 1, hi))

\* the Block Store of a world in which exactly the chunks of S have been generated,
\* in ascending order of (cx, cz)
generatedAscending(s, S) ==
    generateInOrder(<<>>, s, chunksInOrder(S), 1, Cardinality(S))

---------------------------------------------------------------------------
(* Properties *)

\* C1 (occupancy uniqueness): after any sequence of addBlock / removeBlock calls on a
\* new world, a cell holds exactly the type of the most recent successful addBlock
\* there, if no successful removeBlock followed it, and holds nothing otherwise; an
\* addBlock on an occupied cell changes nothing.
C1_OccupancyUniqueness ==
    \A cell \in MutCells :
        getBlock(blocks, cell) =
            IF lastMut[cell] \in {"none", "removed"} THEN "absent" ELSE lastMut[cell]

\* an addBlock has just been refused on a cell that holds a block placed earlier
C1_Witness ==
    /\ lastOp.kind = "addBlock"
    /\ ~ lastOp.done
    /\ lastMut[lastOp.cell] \in PlaceTypes
    /\ \E cell \in MutCells : lastMut[cell] = "removed"

\* C2 (mesh cache consistency under mutation): after an addBlock or removeBlock call
\* has run to completion, the cached meshes of every loaded chunk equal what a fresh
\* build of that chunk from the current Block Store produces.
C2_MeshCacheConsistent ==
    lastOp.kind \in {"addBlock", "removeBlock"} => allMeshesFresh

\* C3 (boundary culling): a side face of a block on a chunk border whose neighbour
\* cell, in an adjacent loaded chunk, holds an opaque block is in the geometry of
\* neither chunk, whichever chunk was generated first; and after removeBlock has
\* removed a block, the faces of the blocks beside it in adjacent loaded chunks that
\* it used to hide are in those chunks' geometry.
C3_BoundaryCulling ==
    /\ \A c \in DOMAIN chunks : \A cell \in getBlocksInChunk(blocks, c) : \A d \in SideDirs :
           ( /\ chunkOfCell(step(cell, d)) # c
             /\ chunkOfCell(step(cell, d)) \in DOMAIN chunks
             /\ step(cell, d) \in DOMAIN blocks
             /\ opaque(blocks[step(cell, d)]) )
           => ~ rendered(c, cell, d)
    /\ (lastOp.kind = "removeBlock" /\ lastOp.done) =>
           \A d \in SideDirs :
               ( /\ chunkOfCell(step(lastOp.cell, d)) # chunkOfCell(lastOp.cell)
                 /\ chunkOfCell(step(lastOp.cell, d)) \in DOMAIN chunks
                 /\ step(lastOp.cell, d) \in DOMAIN blocks )
               => rendered(chunkOfCell(step(lastOp.cell, d)), step(lastOp.cell, d),
                           <<0 - d[1], 0, 0 - d[3]>>)

\* C4 (geometry follows the blocks): when an updateChunks call returns, the cached
\* meshes of every loaded chunk are those of its current blocks and neighbours, the
\* blocks written by the chunk generation of that call included.
C4_GenerationRebuildsGeometry ==
    lastOp.kind = "updateChunks" => allMeshesFresh

\* C5 (streaming boundary): when updateChunks returns, every chunk within
\* renderDistance of the player chunk (Chebyshev) is loaded and no chunk further
\* than renderDistance + 2 on either axis is registered.
C5_StreamingBoundary ==
    lastOp.kind = "updateChunks" =>
        /\ \A dx \in 0 - RenderDistance .. RenderDistance :
           \A dz \in 0 - RenderDistance .. RenderDistance :
               <<playerChunk[1] + dx, playerChunk[2] + dz>> \in DOMAIN chunks
        /\ \A c \in DOMAIN chunks : chunkDistance(c, playerChunk) <= RenderDistance + 2

\* an update has unloaded chunks and has kept a chunk of the band between
\* renderDistance and renderDistance + 2
C5_Witness ==
    /\ lastOp.kind = "updateChunks"
    /\ lastUnloaded # {}
    /\ \E c \in DOMAIN chunks : chunkDistance(c, playerChunk) > RenderDistance

\* C6 (no thrashing): while the player has only been in two adjacent chunks, no chunk
\* has been unloaded and none generated a second time; and updateChunks unloads only
\* chunks further than renderDistance + 2 from the player chunk.
C6_NoThrashing ==
    /\ (\A a \in visited : \A b \in visited : chunkDistance(a, b) <= 1) =>
           (everGenerated \subseteq DOMAIN chunks /\ regenerated = {})
    /\ lastOp.kind = "updateChunks" =>
           \A c \in lastUnloaded : chunkDistance(c, playerChunk) > RenderDistance + 2

\* the player is back in the first of two adjacent chunks, and the call had nothing
\* to generate
C6_Witness ==
    /\ Cardinality(visited) = 2
    /\ \A a \in visited : \A b \in visited : chunkDistance(a, b) <= 1
    /\ lastOp.kind = "updateChunks"
    /\ ~ lastOp.repeat
    /\ lastGenerated = {}
    /\ \E c \in DOMAIN chunks : chunkDistance(c, playerChunk) > RenderDistance

\* C7 (idempotent update): an updateChunks call for the position of the call just
\* before it generates nothing, unloads nothing and leaves the Chunk Registry, the
\* cached meshes and the Block Store as they were.
C7_IdempotentUpdate ==
    [][(lastOp.kind = "updateChunks" /\ lastOp'.kind = "updateChunks"
            /\ lastOp'.cell = lastOp.cell)
        => (/\ blocks' = blocks
            /\ chunks' = chunks
            /\ lastGenerated' = {}
            /\ lastUnloaded' = {})]_vars

\* updateChunks has just been called twice for one position, with chunks of the
\* band loaded and chunks unloaded earlier
C7_Witness ==
    /\ lastOp.kind = "updateChunks"
    /\ lastOp.repeat
    /\ \E c \in DOMAIN chunks : chunkDistance(c, playerChunk) > RenderDistance
    /\ everGenerated \ DOMAIN chunks # {}

\* C8 (terrain generated once): generateChunk runs at most once for a chunk; a chunk
\* that was unloaded and is loaded again gets its geometry rebuilt only.
C8_GeneratedOnce ==
    regenerated = {}

\* C9 (unload releases geometry only): the unload phase of updateChunks removes the
\* registry entries of the chunks it unloads and leaves the Block Store as it was.
C9_UnloadKeepsBlocks ==
    lastOp.kind = "updateChunks" =>
        /\ blocks = midBlocks
        /\ lastUnloaded \cap DOMAIN chunks = {}

\* a call has unloaded a chunk whose region holds blocks
C9_Witness ==
    /\ lastOp.kind = "updateChunks"
    /\ \E c \in lastUnloaded : getBlocksInChunk(blocks, c) # {}

\* C10 (generation order determinism): with no player mutation and every chunk
\* generated once, the Block Store depends on the seed and the set of generated
\* chunks only, and so equals the store that generating the same chunks in
\* ascending order gives.
C10_OrderIndependent ==
    (nMut = 0 /\ regenerated = {}) =>
        blocks = generatedAscending(seed, everGenerated)


\* C11 (addBlock on an occupied cell): the call changes neither the Block Store nor
\* the chunk registry nor any cached geometry (stale geometry stays as it is, so
\* nothing was rebuilt), and it completes.
C11_OccupiedAddIsNoOp ==
    [][(lastOp'.kind = "addBlock" /\ nMut' = nMut + 1 /\ lastOp'.cell \in DOMAIN blocks)
        => (blocks' = blocks /\ chunks' = chunks)]_vars

\* an addBlock has been refused on an occupied cell whose loaded chunk holds geometry
\* that a rebuild would change
C11_Witness ==
    /\ lastOp.kind = "addBlock"
    /\ ~ lastOp.done
    /\ chunkOfCell(lastOp.cell) \in DOMAIN chunks
    /\ chunks[chunkOfCell(lastOp.cell)] # chunkMeshes(blocks, chunkOfCell(lastOp.cell))

\* C12 (transparency rule): in a chunk whose geometry is up to date, a face is not
\* rendered when the neighbouring cell holds a block of the same type or an opaque
\* block of another type, and is rendered when the neighbouring cell holds a
\* transparent block of another type.
C12_TransparencyRule ==
    \A c \in DOMAIN chunks :
        chunks[c] = chunkMeshes(blocks, c) =>
            \A cell \in getBlocksInChunk(blocks, c) : \A d \in Dirs :
                step(cell, d) \in DOMAIN blocks =>
                    IF blocks[step(cell, d)] = blocks[cell] \/ opaque(blocks[step(cell, d)])
                    THEN ~ rendered(c, cell, d)
                    ELSE rendered(c, cell, d)

\* C20 (decorations never overwrite): in a world changed by chunk generation only,
\* every cell below the column height of a generated column holds the terrain type
\* of its stratum, never wood or leaves, and a call never changes a wood or leaves
\* block into the other decoration type.
C20_DecorationsNeverOverwrite ==
    [][(lastOp'.kind = "updateChunks" /\ nMut' = 0) =>
        /\ \A c \in everGenerated' : \A i \in 1 .. ChunkSize * ChunkSize :
           \A y \in 0 .. finalHeight(seed, chunkColumn(c, i)[1], chunkColumn(c, i)[2]) - 1 :
               getBlock(blocks', <<chunkColumn(c, i)[1], y, chunkColumn(c, i)[2]>>)
                   = stratum(y, finalHeight(seed, chunkColumn(c, i)[1], chunkColumn(c, i)[2]))
        /\ \A cell \in DOMAIN blocks :
               (blocks[cell] \in {"wood", "leaves"} /\ blocks'[cell] # blocks[cell])
                   => blocks'[cell] \notin {"wood", "leaves"}]_vars

\* generation has run again over a chunk with trees, and a leaves block sits right
\* beside a terrain block
C20_Witness ==
    /\ nMut = 0
    /\ regenerated # {}
    /\ \E cell \in DOMAIN blocks : \E d \in SideDirs :
           /\ blocks[cell] = "leaves"
           /\ step(cell, d) \in DOMAIN blocks
           /\ blocks[step(cell, d)] \in {"grass", "dirt", "stone"}
           /\ chunkOfCell(cell) \in regenerated


\* the chunk c, of side size, contains column (x, z)
contains(c, size, x, z) ==
    /\ c[1] * size <= x /\ x < (c[1] + 1) * size
    /\ c[2] * size <= z /\ z < (c[2] + 1) * size

\* the cell has all four horizontal neighbours in its own chunk
interior(cell, size) ==
    /\ cell[1] % size \notin {0, size - 1}
    /\ cell[3] % size \notin {0, size - 1}

covered(q) ==
    {<<coordsOf(q.face, q.d, u, v), q.face.dir>> :
        u \in q.u .. q.u + q.width - 1, v \in q.v .. q.v + q.height - 1}

\* the input set of the createMeshGeometry call and the cells its check reports
meshedSet == blockSetOf(callArgs.blocks)
reported == IF callArgs.neighborCheck.given THEN callArgs.neighborCheck.cells ELSE {}

\* the face of block b towards dir is visible in the sense of the contract
visibleFace(b, dir) ==
    /\ b \in meshedSet
    /\ step(b, dir) \notin meshedSet
    /\ step(b, dir) \notin reported

meshed == callResult.done /\ callResult.op = "createMeshGeometry"

\* C13 (face conservation): a unit face (b, dir) is covered by the output of
\* createMeshGeometry if and only if b is in the input set, b+dir is not, and the
\* neighbour check does not report b+dir; a visible face is covered by exactly one
\* quad, an occluded face by none.
C13_FaceConservation ==
    meshed =>
        LET quads == callResult.value.quads
            count(f) == Cardinality({i \in 1 .. Len(quads) : f \in covered(quads[i])})
        IN /\ \A i \in 1 .. Len(quads) : \A f \in covered(quads[i]) : visibleFace(f[1], f[2])
           /\ \A b \in meshedSet : \A dir \in Dirs :
                  count(<<b, dir>>) = IF visibleFace(b, dir) THEN 1 ELSE 0
           /\ UNION {covered(quads[i]) : i \in 1 .. Len(quads)}
                  = createMeshGeometry(meshedSet, reported)

\* a mesh in which the check alone hides a face and a merged quad covers others
C13_Witness ==
    /\ meshed
    /\ \E b \in meshedSet : \E dir \in Dirs :
           step(b, dir) \notin meshedSet /\ step(b, dir) \in reported
    /\ \E i \in 1 .. Len(callResult.value.quads) : callResult.value.quads[i].width > 1

\* the <<u, v>> cells of the rectangle of a quad
rectCells(q) == (q.u .. q.u + q.width - 1) \X (q.v .. q.v + q.height - 1)

\* C14 (greedy rectangle cover): for every face orientation and depth, the
\* rectangles emitted are pairwise disjoint and their union is exactly the
\* visibility mask of that slice.
C14_RectangleCover ==
    meshed =>
        LET quads == callResult.value.quads
            bounds == listBounds(callArgs.blocks, Len(callArgs.blocks))
        IN \A f \in 1 .. Len(faces) : \A d \in -1 .. MeshSpan :
               LET slice == {i \in 1 .. Len(quads) : quads[i].face = faces[f] /\ quads[i].d = d}
               IN /\ \A i, j \in slice : i # j => rectCells(quads[i]) \cap rectCells(quads[j]) = {}
                  /\ UNION {rectCells(quads[i]) : i \in slice}
                         = maskOf(faces[f], d, meshedSet, callArgs.neighborCheck, bounds)

\* a slice where a rectangle spanning several rows lies beside a later rectangle
\* that starts in one of those rows
C14_Witness ==
    /\ meshed
    /\ \E i, j \in 1 .. Len(callResult.value.quads) :
           LET a == callResult.value.quads[i]
               b == callResult.value.quads[j]
           IN /\ a.face = b.face /\ a.d = b.d
              /\ a.height > 1
              /\ b.v > a.v /\ b.v < a.v + a.height
              /\ b.u < a.u

\* S is a straight row of three blocks along the unit vector along
rowOfThree(S, along) == \E c \in S : S = {c, step(c, along), step(step(c, along), along)}

\* C15 (merging): no more quads than visible unit faces; two triangles and four
\* vertices per quad; a single isolated block gives 6 quads; a straight row of three
\* blocks with nothing above gives exactly one top quad, in either orientation.
C15_MergingBounds ==
    meshed =>
        LET quads == callResult.value.quads
            tops  == {i \in 1 .. Len(quads) : quads[i].face.name = "top"}
        IN /\ Len(quads) <= Cardinality({f \in meshedSet \X Dirs : visibleFace(f[1], f[2])})
           /\ Len(callResult.value.index) = 3 * (2 * Len(quads))
           /\ Len(callResult.value.position) = 4 * Len(quads)
           /\ (Cardinality(meshedSet) = 1
               /\ \A b \in meshedSet : \A dir \in Dirs : step(b, dir) \notin reported)
                  => Len(quads) = 6
           /\ \A along \in {<<1, 0, 0>>, <<0, 0, 1>>} :
                  (rowOfThree(meshedSet, along)
                   /\ \A b \in meshedSet : step(b, <<0, 1, 0>>) \notin reported)
                      => Cardinality(tops) = 1

\* a row of three along z, which the top face merges by height
C15_Witness ==
    /\ meshed
    /\ rowOfThree(meshedSet, <<0, 0, 1>>)
    /\ \A b \in meshedSet : step(b, <<0, 1, 0>>) \notin reported
    /\ \E i \in 1 .. Len(callResult.value.quads) :
           /\ callResult.value.quads[i].face.name = "top"
           /\ callResult.value.quads[i].height = 3

\* the bounding box of a position attribute
boundingBox(position) ==
    IF Len(position) = 0 THEN <<>>
    ELSE LET along(k) == {position[i][k] : i \in 1 .. Len(position)}
             least(S) == CHOOSE m \in S : \A o \in S : m <= o
             most(S)  == CHOOSE m \in S : \A o \in S : m >= o
         IN <<least(along(1)), least(along(2)), least(along(3)),
              most(along(1)), most(along(2)), most(along(3))>>

\* C16 (order independence): the geometry of a list is the geometry of the
\* ascending list of the same cells under the same check: same set of quads, same
\* vertex count, same triangle count, same bounding box; so any two lists with the
\* same cells, in any order, with or without duplicates, give the same.
C16_MesherOrderIndependent ==
    meshed =>
        \E ref \in {createMeshQuads(cellsInOrder(meshedSet), callArgs.neighborCheck, FALSE)} :
            LET got == callResult.value
            IN /\ {got.quads[i] : i \in 1 .. Len(got.quads)}
                      = {ref.quads[i] : i \in 1 .. Len(ref.quads)}
               /\ Len(got.quads) = Len(ref.quads)
               /\ Len(got.position) = Len(ref.position)
               /\ Len(got.index) = Len(ref.index)
               /\ boundingBox(got.position) = boundingBox(ref.position)

\* a list that starts with its greatest cell and lists every cell twice
C16_Witness ==
    /\ meshed
    /\ Len(callArgs.blocks) = 2 * Cardinality(meshedSet)
    /\ Cardinality(meshedSet) >= 3
    /\ callArgs.blocks # cellsInOrder(meshedSet)
    /\ Len(callResult.value.quads) > 0

\* C17 (empty and enclosed inputs): createMeshGeometry on an empty list returns an
\* empty geometry; a block all six of whose neighbours are in the input set or
\* reported by the check is covered by no quad; buildChunkMesh on a loaded chunk
\* with no blocks leaves the chunk without geometry handles.
C17_EmptyAndEnclosed ==
    /\ (meshed /\ Len(callArgs.blocks) = 0)
           => callResult.value = [quads |-> <<>>, position |-> <<>>, normal |-> <<>>,
                                   uv |-> <<>>, index |-> <<>>]
    /\ meshed =>
           \A b \in meshedSet :
               (\A dir \in Dirs : step(b, dir) \in meshedSet \cup reported)
                   => \A i \in 1 .. Len(callResult.value.quads) :
                          \A dir \in Dirs : <<b, dir>> \notin covered(callResult.value.quads[i])
    /\ (callResult.done /\ callResult.op = "buildChunkMesh"
        /\ getBlocksInChunk(meshedWorld.blocks, MeshedChunk) = {})
           => DOMAIN callResult.value = {}

\* buildChunkMesh has run on a chunk that held handles and holds no block, in a
\* world that has blocks elsewhere
C17_Witness ==
    /\ callResult.done
    /\ callResult.op = "buildChunkMesh"
    /\ meshedSet # {}
    /\ getBlocksInChunk(meshedWorld.blocks, MeshedChunk) = {}
    /\ DOMAIN callResult.value = {}


\* C18 (SeededRandom range): after every call, the state is below 0x7fffffff, so
\* next() = state / 0x7fffffff is in [0, 1); nextInt(0, 4) is in 0 .. 3; and the
\* trunk height 3 + nextInt(0, 4) computed from the state is in 3 .. 6.
C18_RandomRange ==
    callResult.done =>
        /\ callResult.seed >= 0
        /\ callResult.seed < Mask31
        /\ callResult.op = "nextInt" => callResult.value \in 0 .. 3
        /\ nextIntOf(callResult.seed, 0, 4) >= 0
        /\ nextIntOf(callResult.seed, 0, 4) < 4
        /\ trunkHeightOf(callResult.seed) \in 3 .. 6

\* next() has been called on the seed whose exact successor would be 0x7fffffff
C18_Witness ==
    /\ callResult.done
    /\ callArgs.seed = 230538014
    /\ callResult.calls = 1
    /\ callResult.seed = 0

\* the columns <<x, z, H>> of the chunks generated so far, H the clamped height
generatedColumns ==
    {<<chunkColumn(c, i)[1], chunkColumn(c, i)[2],
       finalHeight(seed, chunkColumn(c, i)[1], chunkColumn(c, i)[2])>> :
        c \in everGenerated, i \in 1 .. ChunkSize * ChunkSize}

\* C21 (terrain strata): in a world changed by chunk generation only, every generated
\* column of clamped height H >= 1 is filled at every y in 0 .. H-1; from the bottom
\* up it is stone, then a band of dirt right below the surface, then one grass block
\* at y = H-1, so the topmost terrain block is grass for every H >= 1.
C21_TerrainStrata ==
    nMut = 0 =>
        \A col \in generatedColumns :
            LET H == col[3]
                at(y) == getBlock(blocks, <<col[1], y, col[2]>>)
            IN /\ H >= 1
               /\ \A y \in 0 .. H - 1 : at(y) # "absent"
               /\ at(H - 1) = "grass"
               /\ \E k \in 0 .. H - 1 :
                      /\ \A y \in 0 .. k - 1 : at(y) = "stone"
                      /\ \A y \in k .. H - 2 : at(y) = "dirt"

\* the heights of the scanned range at which column (x, z) of the looked-up store
\* holds a block
occupiedInRange(x, z) ==
    {y \in HighestBottom .. HighestTop : <<x, y, z>> \in DOMAIN callArgs.store}

\* C22 (highest block): getHighestBlockAt(x, z) returns the largest y of the scanned
\* range -50 .. 50 at which the column holds a block, and returns -1 exactly when the
\* column holds no block in the range.
C22_HighestBlock ==
    (callResult.done /\ callResult.op = "getHighestBlockAt") =>
        LET occupied == occupiedInRange(callResult.at[1], callResult.at[3])
        IN /\ occupied # {} => /\ callResult.value \in occupied
                               /\ \A y \in occupied : y <= callResult.value
           /\ callResult.value = NoBlockFound <=> occupied = {}

\* C23 (absent lookups): getBlock on an unoccupied cell returns null and isBlockAt
\* returns false; getBlock returns a block record exactly when isBlockAt is true.
C23_AbsentLookups ==
    /\ (callResult.done /\ callResult.op = "getBlock") =>
           /\ callResult.at \notin DOMAIN callArgs.store => callResult.value.kind = "null"
           /\ callResult.value.kind # "null" <=> isBlockAt(callArgs.store, callResult.at)
    /\ (callResult.done /\ callResult.op = "isBlockAt") =>
           (callResult.value <=> callResult.at \in DOMAIN callArgs.store)

\* the optimized meshes of the World without chunks that draw a face of the cell
optimizedDrawing(cell) ==
    {t \in DOMAIN callResult.world.instancedMeshes :
        \E d \in Dirs : <<cell, d>> \in callResult.world.instancedMeshes[t]}

\* C24 (one mesh per block, World without chunks): after any sequence of addBlock /
\* removeBlock calls, a stored terrain block is drawn by the optimized mesh of its
\* type and by no other mesh, a stored block placed by addBlock is drawn by its
\* individual mesh and by no optimized mesh, and a cell without block is drawn by
\* no mesh.
C24_OneMeshPerBlock ==
    \A cell \in FlatCells :
        LET w == callResult.world
        IN IF cell \notin DOMAIN w.blocks
           THEN optimizedDrawing(cell) = {} /\ cell \notin DOMAIN w.dynamicMeshes
           ELSE IF cell \in callResult.placed
           THEN optimizedDrawing(cell) = {} /\ cell \in DOMAIN w.dynamicMeshes
           ELSE optimizedDrawing(cell) = {w.blocks[cell]} /\ cell \notin DOMAIN w.dynamicMeshes

\* the chunks updateChunks can reach from the positions it is called with
LifecycleChunks ==
    UNION {{loadTarget(<<chunkCoord(pos[1]), chunkCoord(pos[2])>>, i) :
                i \in 1 .. LoadSpan * LoadSpan} : pos \in PlayerPositions}

\* the phase of chunk c, given the registry and the position in the call
phaseOf(c, registry, frame) ==
    IF c \in DOMAIN registry THEN "loaded"
    ELSE IF frame.pc \in {"terrain", "register"} /\ frame.c = c THEN "generating"
    ELSE "unloaded"

\* every terrain cell of every column of chunk c is in the store b
terrainWritten(b, c) ==
    \A i \in 1 .. ChunkSize * ChunkSize :
        \A y \in 0 .. finalHeight(seed, chunkColumn(c, i)[1], chunkColumn(c, i)[2]) - 1 :
            <<chunkColumn(c, i)[1], y, chunkColumn(c, i)[2]>> \in DOMAIN b

\* C25 (chunk lifecycle): a chunk moves only unloaded -> generating -> loaded ->
\* unloaded; generateChunk is entered only for a chunk that is not registered; a
\* chunk is registered only while it is generating and after the terrain of all its
\* columns has been written; whenever updateChunks enters generateChunk for the next
\* chunk or returns, every chunk it has registered has had its first mesh build, and
\* the build leaves the meshes buildChunkMesh computes; the world updateChunks
\* returns with is the one the call as a whole computes from the world it began with.
C25_ChunkLifecycle ==
    [][/\ \A c \in LifecycleChunks :
              LET before == phaseOf(c, chunks, callResult)
                  after  == phaseOf(c, chunks', callResult')
              IN \/ after = before
                 \/ before = "unloaded" /\ after = "generating"
                 \/ before = "generating" /\ after = "loaded"
                 \/ before = "loaded" /\ after = "unloaded"
       /\ (callResult.pc = "load" /\ callResult'.pc = "terrain")
              => callResult'.c \notin DOMAIN chunks
       /\ \A c \in DOMAIN chunks' \ DOMAIN chunks :
              /\ phaseOf(c, chunks, callResult) = "generating"
              /\ terrainWritten(blocks, c)
       /\ (callResult'.pc \in {"terrain", "idle"} /\ callResult.pc # callResult'.pc)
              => callResult'.registered \subseteq callResult'.built
       /\ \A c \in callResult'.built \ callResult.built :
              /\ c \in callResult.registered
              /\ chunks'[c] = chunkMeshes(blocks', c)
       /\ (callResult'.pc = "idle" /\ callResult.pc # "idle")
              => World' = updateChunks(callResult.start, seed, callArgs.pos).end
      ]_vars

\* a call has generated two chunks and unloaded a chunk loaded by an earlier call
C25_Witness ==
    /\ callResult.pc = "idle"
    /\ callResult.done
    /\ Cardinality(callResult.built) >= 2
    /\ \E c \in DOMAIN callResult.start.chunks : c \notin DOMAIN chunks

\* the state chunkRandom starts from for chunk c
chunkRandomStart(c) == seed + c[1] * ChunkSeedX + c[2] * ChunkSeedZ

\* the state of chunkRandom after the first k columns of chunk c, when the chunk is
\* generated on an empty Block Store
streamAfter(c, k) ==
    IF k = 0 THEN chunkRandomStart(c)
    ELSE columnLoop([blocks |-> <<>>, rng |-> chunkRandomStart(c)], seed, c, 1, k).rng

\* C26 (per-chunk random stream): generateChunk starts chunkRandom from a state that
\* is a function of (seed, cx, cz); each column consumes the draws, and chooses the
\* tree, trunk and leaf cells, that the same column consumes and chooses on an empty
\* Block Store from the same state (a chosen cell is written unless it is occupied);
\* so the state after every column is the one reached when the chunk is generated
\* alone on an empty store, whatever was generated before.
C26_ChunkRandomStream ==
    [][/\ (callResult.pc = "load" /\ callResult'.pc = "terrain")
              => callResult'.rng = chunkRandomStart(callResult'.c)
       /\ (callResult.pc = "terrain" /\ callResult'.col = callResult.col + 1)
              => \E ref \in {generateColumn([blocks |-> <<>>, rng |-> callResult.rng], seed,
                                            chunkColumn(callResult.c, callResult.col)[1],
                                            chunkColumn(callResult.c, callResult.col)[2])} :
                     /\ callResult'.rng = ref.rng
                     /\ DOMAIN blocks' = DOMAIN blocks \cup DOMAIN ref.blocks
                     /\ \A cell \in DOMAIN ref.blocks \ DOMAIN blocks :
                            blocks'[cell] = ref.blocks[cell]
       /\ callResult'.pc = "terrain"
              => callResult'.rng = streamAfter(callResult'.c, callResult'.col - 1)
      ]_vars

\* the columns of a chunk have been generated, a tree among them, on a Block Store
\* that held blocks of that chunk when the call began
C26_Witness ==
    /\ callResult.pc = "register"
    /\ \E cell \in DOMAIN callResult.start.blocks : chunkOfCell(cell) = callResult.c
    /\ \E cell \in DOMAIN blocks : chunkOfCell(cell) = callResult.c /\ blocks[cell] = "wood"
    /\ callResult.rng # chunkRandomStart(callResult.c)

\* the cross product of two vectors
cross(a, b) ==
    <<a[2] * b[3] - a[3] * b[2], a[3] * b[1] - a[1] * b[3], a[1] * b[2] - a[2] * b[1]>>

minus(a, b) == <<a[1] - b[1], a[2] - b[2], a[3] - b[3]>>

\* v is a positive multiple of the axis direction dir
pointsAlong(v, dir) ==
    \A k \in 1 .. 3 : IF dir[k] = 0 THEN v[k] = 0 ELSE v[k] * dir[k] > 0

\* the geometric normal of the triangle index[t], index[t + 1], index[t + 2]
triangleNormal(geometry, t) ==
    LET at(i) == geometry.position[geometry.index[i] + 1]
    IN cross(minus(at(t + 1), at(t)), minus(at(t + 2), at(t)))

\* the six indices of quad k, relative to its first vertex
windingOf(geometry, k) ==
    [i \in 1 .. 6 |-> geometry.index[6 * (k - 1) + i] - 4 * (k - 1)]

\* C27 (winding): for every quad of every face direction and size, with and without
\* isHalfHeight, both triangles have a geometric normal (cross product of their
\* edges in index order) pointing in the face direction; the index order is
\* <<0, 2, 1, 0, 3, 2>> exactly for +X, +Y and -Z and <<0, 1, 2, 0, 2, 3>> for
\* -X, -Y and +Z.
C27_Winding ==
    callResult.done =>
        \A k \in 1 .. Len(callResult.value.quads) :
            LET dir == callResult.value.quads[k].face.dir
            IN /\ pointsAlong(triangleNormal(callResult.value, 6 * (k - 1) + 1), dir)
               /\ pointsAlong(triangleNormal(callResult.value, 6 * (k - 1) + 4), dir)
               /\ windingOf(callResult.value, k) =
                      IF dir \in {<<1, 0, 0>>, <<0, 1, 0>>, <<0, 0, -1>>}
                      THEN <<0, 2, 1, 0, 3, 2>>
                      ELSE <<0, 1, 2, 0, 2, 3>>

\* a geometry with quads of all six directions, among them one of two by two cells
C27_Witness ==
    /\ callResult.done
    /\ \A dir \in Dirs : \E k \in 1 .. Len(callResult.value.quads) :
           callResult.value.quads[k].face.dir = dir
    /\ \E k \in 1 .. Len(callResult.value.quads) :
           /\ callResult.value.quads[k].width = 2
           /\ callResult.value.quads[k].height = 2
    /\ \E k \in 1 .. Len(callResult.value.quads) :
           callResult.value.quads[k].width # callResult.value.quads[k].height

\* the heights (in half blocks) of the four vertices of quad k
quadHeights(geometry, k) == {geometry.position[4 * (k - 1) + i][2] : i \in 1 .. 4}

\* C28 (half-height): with isHalfHeight, a +Y quad of blocks at height y lies at
\* y + 0.5 and a -Y quad at y, and a side quad over the cells y .. y + n - 1 of a
\* column reaches from y to the top of its highest cell, y + n - 1 + 0.5; without
\* isHalfHeight the same with block height 1 (top at y + 1, side from y to y + n).
C28_HalfHeight ==
    callResult.done =>
        \A k \in 1 .. Len(callResult.value.quads) :
            LET q == callResult.value.quads[k]
                blockHeight == blockHeightOf(callArgs.isHalfHeight)
            IN quadHeights(callResult.value, k) =
                   IF q.face.name = "top" THEN {HalfUnits * q.d + blockHeight}
                   ELSE IF q.face.name = "bottom" THEN {HalfUnits * q.d}
                   ELSE {HalfUnits * q.v, HalfUnits * (q.v + q.height - 1) + blockHeight}

\* C29 (buffers): for an output of Q quads there are 4Q vertices, with 12Q position
\* components, 12Q normal components, 8Q uv components and 6Q indices; every index
\* is in [0, 4Q); the six indices of quad k (counted from 0) are among 4k .. 4k + 3;
\* and the normal of every vertex is the face direction of its quad.
C29_BufferShape ==
    callResult.done =>
        LET geometry == callResult.value
            Q == Len(geometry.quads)
        IN /\ Len(geometry.position) = 4 * Q
           /\ \A i \in 1 .. Len(geometry.position) : Len(geometry.position[i]) = 3
           /\ Len(geometry.normal) = 4 * Q
           /\ \A i \in 1 .. Len(geometry.normal) : Len(geometry.normal[i]) = 3
           /\ Len(geometry.uv) = 4 * Q
           /\ \A i \in 1 .. Len(geometry.uv) : Len(geometry.uv[i]) = 2
           /\ Len(geometry.index) = 6 * Q
           /\ \A i \in 1 .. Len(geometry.index) :
                  geometry.index[i] >= 0 /\ geometry.index[i] < 4 * Q
           /\ \A k \in 0 .. Q - 1 :
                  /\ \A i \in 1 .. 6 : geometry.index[6 * k + i] \in 4 * k .. 4 * k + 3
                  /\ \A i \in 1 .. 4 : geometry.normal[4 * k + i] = geometry.quads[k + 1].face.dir

\* a geometry of more than six quads, one of them over several cells
C29_Witness ==
    /\ callResult.done
    /\ Len(callResult.value.quads) > 6
    /\ \E k \in 1 .. Len(callResult.value.quads) : callResult.value.quads[k].width > 1
    /\ callArgs.isHalfHeight

\* C30 (block identity): every record of the Block Store carries the integer
\* coordinates of its key (the floor of the coordinates passed to addBlock), so the
\* cells the mesher derives from the records' own x, y, z are the keys of the store.
C30_BlockIdentity ==
    /\ \A key \in DOMAIN callResult.store :
           /\ callResult.store[key].x = HalfUnits * key[1]
           /\ callResult.store[key].y = HalfUnits * key[2]
           /\ callResult.store[key].z = HalfUnits * key[3]
    /\ recordKeys(callResult.store) =
           {<<HalfUnits * key[1], HalfUnits * key[2], HalfUnits * key[3]>> :
                key \in DOMAIN callResult.store}

\* C31 (chunks partition the plane): for every point, negative coordinates and
\* points inside a cell included, exactly one chunk's getBlocksInChunk range holds
\* the cell of the point, and it is the chunk floor(x / size), floor(z / size) that
\* addBlock, removeBlock and updateChunks compute.
C31_ChunkPartition ==
    callResult.done => callResult.scanning = {callResult.owner}

\* a point inside a cell at negative x, on the far side of a chunk border
C31_Witness ==
    /\ callResult.done
    /\ callArgs.point[1] < 0
    /\ callArgs.point[1] % HalfUnits = 1
    /\ callResult.owner[1] < -1
    /\ callResult.owner[2] < 0
    /\ callArgs.size = 16

\* C32 (mesh input completeness): every block the Block Store holds in the x/z
\* range of a loaded chunk, at whatever height addBlock placed it, is in the
\* chunk's mesh input; and a block just placed in a loaded chunk has each face
\* that no block covers in the chunk's geometry.
C32_MeshInputComplete ==
    /\ \A c \in DOMAIN chunks : \A cell \in DOMAIN blocks :
           chunkOfCell(cell) = c => cell \in getBlocksInChunk(blocks, c)
    /\ (lastOp.kind = "addBlock" /\ lastOp.done /\ chunkOfCell(lastOp.cell) \in DOMAIN chunks)
           => \A d \in Dirs :
                  ~ isBlockAt(blocks, step(lastOp.cell, d))
                      => rendered(chunkOfCell(lastOp.cell), lastOp.cell, d)

\* C33 (no orphaned geometry): the chunk meshes in the scene are exactly the meshes
\* the registered chunks hold, each held once, under its own chunk and type and with
\* a geometry that is not empty; every mesh ever made that is no longer held has
\* been removed from the scene and its geometry disposed exactly once, and no held
\* mesh has been disposed.
C33_NoOrphanedGeometry ==
    LET s == callResult.s
    IN /\ s.scene = UNION {handlesOf(s, c) : c \in DOMAIN s.handles}
       /\ \A c \in DOMAIN s.handles : \A t \in DOMAIN s.handles[c] :
              /\ s.meshes[s.handles[c][t]].chunk = c
              /\ s.meshes[s.handles[c][t]].type = t
              /\ s.meshes[s.handles[c][t]].faces # {}
       /\ \A id \in DOMAIN s.meshes :
              s.meshes[id].disposed = IF id \in s.scene THEN 0 ELSE 1

\* a chunk has been unloaded and loaded again and a block mutation has rebuilt
\* meshes: meshes of all three fates exist
C33_Witness ==
    LET s == callResult.s
    IN /\ callResult.calls >= 3
       /\ s.scene # {}
       /\ \E id \in DOMAIN s.meshes : \E other \in s.scene :
              /\ id \notin s.scene
              /\ s.meshes[id].chunk = s.meshes[other].chunk
              /\ s.meshes[id].type = s.meshes[other].type
       /\ \E id \in DOMAIN s.meshes : s.meshes[id].chunk \notin DOMAIN s.handles

\* C34 (mutations keep the registry's keys): a call of addBlock or removeBlock
\* leaves the set of registered chunks as it was; it writes the Block Store (the
\* cell is added by addBlock on a free cell, deleted by removeBlock on an occupied
\* one, nothing else changes) whether or not the owning and neighbouring chunks are
\* loaded, and a chunk that is not loaded gets no entry and so no geometry.
C34_MutationsKeepRegistry ==
    [][(nMut' = nMut + 1) =>
          /\ DOMAIN chunks' = DOMAIN chunks
          /\ (lastOp'.kind = "addBlock" /\ lastOp'.cell \notin DOMAIN blocks)
                 => /\ DOMAIN blocks' = DOMAIN blocks \cup {lastOp'.cell}
                    /\ \A cell \in DOMAIN blocks : blocks'[cell] = blocks[cell]
          /\ (lastOp'.kind = "removeBlock" /\ lastOp'.cell \in DOMAIN blocks)
                 => blocks' = deleteBlock(blocks, lastOp'.cell)
      ]_vars

\* a block has been placed in a chunk that is not loaded, next to a loaded one
C34_Witness ==
    /\ lastOp.kind = "addBlock"
    /\ lastOp.done
    /\ lastOp.cell \in DOMAIN blocks
    /\ chunkOfCell(lastOp.cell) \notin DOMAIN chunks
    /\ \E c \in neighborsToUpdate(lastOp.cell) : c \in DOMAIN chunks

\* C35 (melting removes only snow): in a melt tick world.removeBlock is called only
\* at positions that were tracked and held a snow block, and those blocks are the
\* only change to the Block Store; a tracked position drawn whose block is gone or
\* is of another type leaves tracking with the Block Store untouched there.
C35_MeltRemovesOnlySnow ==
    [][callResult'.op = "meltSnow" =>
          LET before == callResult.st
              after  == callResult'.st
          IN /\ after.removed \subseteq before.tracked
             /\ \A cell \in after.removed : getBlock(before.blocks, cell) = "snow"
             /\ after.blocks = [cell \in DOMAIN before.blocks \ after.removed |->
                                   before.blocks[cell]]
             /\ after.tracked \subseteq before.tracked
             /\ \A cell \in before.tracked \ after.tracked :
                    getBlock(before.blocks, cell) # "snow"
                        => /\ cell \notin after.removed
                           /\ getBlock(after.blocks, cell) = getBlock(before.blocks, cell)
      ]_vars

\* a melt tick has dropped a position where the player had put a stone block in
\* place of the snow, and has removed a snow block at another
C35_Witness ==
    /\ callResult.op = "meltSnow"
    /\ callResult.st.removed # {}
    /\ \E cell \in callResult.st.dropped : getBlock(callResult.st.blocks, cell) = "stone"
    /\ callResult.st.tracked = {}

\* C36 (snow eventually melts): every melt tick takes min(snowMeltPerTick, number
\* of tracked positions) distinct positions out of the tracked set and adds none;
\* and if the weather stays sunny from some point on, with melt ticks coming again
\* and again, then from some point on nothing is tracked and no snow block is left
\* in the world.
C36_SnowEventuallyMelts ==
    /\ [][callResult'.op = "meltSnow" =>
             /\ callResult'.st.tracked \subseteq callResult.st.tracked
             /\ Cardinality(callResult.st.tracked \ callResult'.st.tracked)
                    = Min(SnowMeltPerTick, Cardinality(callResult.st.tracked))
         ]_vars
    /\ (<>[](callResult.st.weather = "sunny"))
           => <>[](/\ callResult.st.tracked = {}
                   /\ \A cell \in DOMAIN callResult.st.blocks :
                          callResult.st.blocks[cell] # "snow")

\* two snow blocks have been placed and the sun is out again: two positions are
\* tracked, one of them still snow, and a melt tick is due
C36_Witness ==
    /\ callResult.st.weather = "sunny"
    /\ Cardinality(callResult.st.tracked) = 2
    /\ \E cell \in callResult.st.tracked : getBlock(callResult.st.blocks, cell) = "snow"
    /\ \E cell \in callResult.st.tracked : getBlock(callResult.st.blocks, cell) # "snow"

\* C37 (snow placement): an accumulation tick places at most snowBlocksPerTick snow
\* blocks and changes nothing else in the Block Store; each is placed at
\* (x, h + 1, z) with h = getHighestBlockAt(x, z) >= 0 before the tick, over a block
\* of a snowable type (so neither water nor snow), into a cell that held no block
\* and was not tracked; the tracked set grows by exactly the placed positions.
C37_SnowPlacement ==
    [][callResult'.op = "accumulateSnow" =>
          LET before == callResult.st
              after  == callResult'.st
          IN /\ Cardinality(after.placed) <= SnowBlocksPerTick
             /\ DOMAIN after.blocks = DOMAIN before.blocks \cup after.placed
             /\ \A cell \in DOMAIN before.blocks : after.blocks[cell] = before.blocks[cell]
             /\ after.tracked = before.tracked \cup after.placed
             /\ \A cell \in after.placed :
                    LET h == getHighestBlockAt(before.blocks, cell[1], cell[3])
                    IN /\ h >= 0
                       /\ cell = <<cell[1], h + 1, cell[3]>>
                       /\ getBlock(before.blocks, <<cell[1], h, cell[3]>>) \in snowableBlocks
                       /\ getBlock(before.blocks, <<cell[1], h, cell[3]>>) \notin {"water", "snow"}
                       /\ ~ isBlockAt(before.blocks, cell)
                       /\ cell \notin before.tracked
                       /\ after.blocks[cell] = "snow"
      ]_vars

\* an accumulation tick has placed one snow block in a world where an earlier
\* tick's snow still lies on one column and the player has broken the tracked snow
\* of another
C37_Witness ==
    /\ callResult.op = "accumulateSnow"
    /\ Cardinality(callResult.st.placed) = 1
    /\ \E cell \in callResult.st.tracked \ callResult.st.placed :
           getBlock(callResult.st.blocks, cell) = "snow"
    /\ \E cell \in callResult.st.tracked : ~ isBlockAt(callResult.st.blocks, cell)

\* C38 (key bindings stay injective): no two actions are ever bound to the same key
\* code; a call that names an unknown action, or a key code bound to another
\* action, returns false and leaves the bindings as they were; every other call
\* returns true and changes the binding of the named action, and nothing else, to
\* the key code.
C38_KeyBindingsInjective ==
    /\ [](\A a, b \in DOMAIN callResult.keyBindings :
              a # b => callResult.keyBindings[a] # callResult.keyBindings[b])
    /\ [][LET before == callResult.keyBindings
              after  == callResult'.keyBindings
              action == callResult'.action
              refused == \/ action \notin DOMAIN before
                         \/ \E other \in DOMAIN before :
                                other # action /\ before[other] = callResult'.keyCode
          IN /\ callResult'.returned = ~ refused
             /\ refused => after = before
             /\ ~ refused => /\ DOMAIN after = DOMAIN before
                             /\ after[action] = callResult'.keyCode
                             /\ \A other \in DOMAIN before \ {action} :
                                    after[other] = before[other]
         ]_vars

\* a key freed by an earlier rebinding has been taken by another action, and the
\* last call, for a key that is in use, was refused
C38_Witness ==
    /\ callResult.calls = 3
    /\ ~ callResult.returned
    /\ callResult.action \in DOMAIN callResult.keyBindings
    /\ callResult.keyBindings.jump = "KeyW"
    /\ callResult.keyBindings.forward = "ArrowUp"

\* C39 (hit-to-block mapping): for a ray hit anywhere inside any of the six faces
\* of the block at integer coordinate (x, y, z) of a chunk mesh, the fallback of
\* getBlockPositionFromIntersection returns (x, y, z).
C39_HitToBlock ==
    callResult.done => callResult.value = callArgs.cell

=============================================================================
